---- MODULE Spec2Model ----
(***************************************************************************)
(* Verification model of pbql-go's schema loader (schema/schema.go):       *)
(* DB.LoadFiles and the walk loadFile / loadMessage / loadField /          *)
(* loadEnum / loadService / loadExtension, the bulkLoader of eleven        *)
(* appenders, and the options encoder extractOptions / valueToInterface /  *)
(* scalarToInterface / messageToInterface.                                 *)
(*                                                                         *)
(* Go strings are TLA+ strings, joined with \o as fmt.Sprintf("%s.%s")     *)
(* joins them.  A Go `any` is a record [type, val] (dynamic type, value).  *)
(* A nil `any` in a row column of string type is the string Nil.           *)
(***************************************************************************)
EXTENDS Integers, Sequences, FiniteSets, TLC

\* Longest batch handed to one LoadFiles call.
MaxBatch == 2
\* Number of LoadFiles calls made against one store (main.go calls it once
\* per directory and once for the individual files).
MaxCalls == 2
\* Number of fields set in an options message built for the encoder.
MaxSetFields == 2

Nil == "<nil>"
NilAny == [type |-> "nil", val |-> Nil]

-----------------------------------------------------------------------------
(* Sequence helpers *)

RECURSIVE Concat(_)
Concat(ss) == IF Len(ss) = 0 THEN <<>> ELSE Head(ss) \o Concat(Tail(ss))

Reverse(s) == [i \in 1..Len(s) |-> s[Len(s) + 1 - i]]

Range(s) == {s[i] : i \in 1..Len(s)}

-----------------------------------------------------------------------------
(* fmt.Sprintf("%v", x) for the Go values the loader formats: a bool, an   *)
(* integer of any width, a string.                                         *)

Digit(d) ==
    CASE d = 0 -> "0" [] d = 1 -> "1" [] d = 2 -> "2" [] d = 3 -> "3"
      [] d = 4 -> "4" [] d = 5 -> "5" [] d = 6 -> "6" [] d = 7 -> "7"
      [] d = 8 -> "8" [] d = 9 -> "9"

RECURSIVE Itoa(_)
Itoa(n) ==
    IF n < 0 THEN "-" \o Itoa(-n)
    ELSE IF n < 10 THEN Digit(n)
    ELSE Itoa(n \div 10) \o Digit(n % 10)

IntKinds == {"int32", "sint32", "sfixed32", "int64", "sint64", "sfixed64",
             "uint32", "fixed32", "uint64", "fixed64"}

Sprint(kind, v) ==
    IF kind = "bool" THEN (IF v THEN "true" ELSE "false")
    ELSE IF kind \in IntKinds THEN Itoa(v)
    ELSE v

-----------------------------------------------------------------------------
(* The options encoder.                                                    *)
(*                                                                         *)
(* An options message (proto.Message) is [isNil, valid, set]: isNil is the *)
(* nil interface, valid is ProtoReflect().IsValid() (false for a typed nil *)
(* pointer), set is the populated fields <<[fd, v], ...>> in the order     *)
(* Range visits them.  A field descriptor fd is [name, fullName,           *)
(* isExtension, kind, isList, isMap, mapKey, mapValue, enumValues]; a      *)
(* protoreflect.Value is a boolean, an integer, a string, an enum number,  *)
(* a sequence (List), a function (Map) or a message [valid, set].          *)

EmptyMap == [k \in {} |-> NilAny]
NilMap == [type |-> "nilmap", val |-> Nil]

Put(m, k, v) == [x \in (DOMAIN m) \cup {k} |-> IF x = k THEN v ELSE m[x]]

OptionName(fd) == IF fd.isExtension THEN fd.fullName ELSE fd.name

RECURSIVE scalarToInterface(_, _)
RECURSIVE messageToInterface(_)
RECURSIVE valueToInterface(_, _)
RECURSIVE rangeFields(_, _, _)
RECURSIVE rangeMap(_, _, _, _)

\* a number the enum does not declare encodes as nil
scalarToInterface_noFallback(fd, v) ==
    CASE fd.kind = "enum" ->
            IF v \in DOMAIN fd.enumValues
            THEN [type |-> "string", val |-> fd.enumValues[v]]
            ELSE NilAny
      [] fd.kind \in {"message", "group"} -> messageToInterface(v)
      [] fd.kind = "bool" -> [type |-> "bool", val |-> v]
      [] fd.kind = "string" -> [type |-> "string", val |-> v]
      [] fd.kind = "int64" -> [type |-> "int64", val |-> v]
      [] OTHER -> [type |-> "int32", val |-> v]

scalarToInterface(fd, v) ==
    CASE fd.kind = "bool" -> [type |-> "bool", val |-> v]
      [] fd.kind \in {"int32", "sint32", "sfixed32"} -> [type |-> "int32", val |-> v]
      [] fd.kind \in {"int64", "sint64", "sfixed64"} -> [type |-> "int64", val |-> v]
      [] fd.kind \in {"uint32", "fixed32"} -> [type |-> "uint32", val |-> v]
      [] fd.kind \in {"uint64", "fixed64"} -> [type |-> "uint64", val |-> v]
      [] fd.kind = "float" -> [type |-> "float32", val |-> v]
      [] fd.kind = "double" -> [type |-> "float64", val |-> v]
      [] fd.kind = "string" -> [type |-> "string", val |-> v]
      [] fd.kind = "bytes" -> [type |-> "bytes", val |-> v]
      [] fd.kind = "enum" ->
            IF v \in DOMAIN fd.enumValues
            THEN [type |-> "string", val |-> fd.enumValues[v]]
            ELSE [type |-> "int32", val |-> v]
      [] fd.kind \in {"message", "group"} -> messageToInterface(v)
      [] OTHER -> [type |-> "any", val |-> v]

\* msg.Range(func(fd, v) { result[name(fd)] = valueToInterface(fd, v) })
rangeFields(set, i, result) ==
    IF i > Len(set) THEN result
    ELSE rangeFields(set, i + 1,
            Put(result, OptionName(set[i].fd), valueToInterface(set[i].fd, set[i].v)))

messageToInterface(msg) ==
    IF ~msg.valid THEN NilMap
    ELSE [type |-> "map", val |-> rangeFields(msg.set, 1, EmptyMap)]

\* the callback returns false: Range stops after the first entry
rangeMap_firstOnly(fd, m, todo, result) ==
    IF todo = {} THEN result
    ELSE LET k == CHOOSE x \in todo : TRUE
         IN Put(result, Sprint(fd.mapKey.kind, k), scalarToInterface(fd.mapValue, m[k]))

\* m.Range(func(k, v) { result[Sprintf("%v", k)] = scalarToInterface(fd.MapValue(), v) })
rangeMap(fd, m, todo, result) ==
    IF todo = {} THEN result
    ELSE LET k == CHOOSE x \in todo : TRUE
         IN rangeMap(fd, m, todo \ {k},
                Put(result, Sprint(fd.mapKey.kind, k), scalarToInterface(fd.mapValue, m[k])))

valueToInterface(fd, v) ==
    IF fd.isList
    THEN [type |-> "list", val |-> [i \in 1..Len(v) |-> scalarToInterface(fd, v[i])]]
    ELSE IF fd.isMap
    THEN [type |-> "map", val |-> rangeMap(fd, v, DOMAIN v, EmptyMap)]
    ELSE scalarToInterface(fd, v)

\* the hasFields check is missing
extractOptions_noHasFields(opts) ==
    IF opts.isNil THEN NilAny
    ELSE IF ~opts.valid THEN NilAny
    ELSE [type |-> "map", val |-> rangeFields(opts.set, 1, EmptyMap)]

extractOptions(opts) ==
    IF opts.isNil THEN NilAny
    ELSE IF ~opts.valid THEN NilAny
    ELSE IF Len(opts.set) = 0 THEN NilAny
    ELSE [type |-> "map", val |-> rangeFields(opts.set, 1, EmptyMap)]

NilOpts == [isNil |-> TRUE, valid |-> FALSE, set |-> <<>>]
InvalidOpts == [isNil |-> FALSE, valid |-> FALSE, set |-> <<>>]
EmptyOpts == [isNil |-> FALSE, valid |-> TRUE, set |-> <<>>]
OptsWith(set) == [isNil |-> FALSE, valid |-> TRUE, set |-> set]

-----------------------------------------------------------------------------
(* Option field descriptors and the values they take.                      *)

ScalarFd(name, fullName, isExtension, kind) ==
    [name |-> name, fullName |-> fullName, isExtension |-> isExtension,
     kind |-> kind, isList |-> FALSE, isMap |-> FALSE]

FdDeprecated == ScalarFd("deprecated", "google.protobuf.MessageOptions.deprecated", FALSE, "bool")
FdGoPackage == ScalarFd("go_package", "google.protobuf.FileOptions.go_package", FALSE, "string")
FdMyOpt == ScalarFd("my_opt", "pkg.my_opt", TRUE, "int32")
\* an extension declared in a file without a package: its full name is its name
FdTopLevelExt == ScalarFd("deprecated", "deprecated", TRUE, "string")
FdLevel ==
    [enumValues |-> (0 :> "LOW" @@ 1 :> "HIGH")] @@ ScalarFd("level", "pkg.level", TRUE, "enum")
FdTags == [ScalarFd("tags", "pkg.tags", TRUE, "string") EXCEPT !.isList = TRUE]
FdLevels == [FdLevel EXCEPT !.name = "levels", !.fullName = "pkg.levels", !.isList = TRUE]
FdRule == ScalarFd("rule", "pkg.rule", TRUE, "message")
FdName == ScalarFd("name", "pkg.Rule.name", FALSE, "string")

MapFd(name, fullName, keyKind, valueFd) ==
    [mapKey |-> ScalarFd("key", fullName \o ".key", FALSE, keyKind), mapValue |-> valueFd]
        @@ [ScalarFd(name, fullName, TRUE, "message") EXCEPT !.isMap = TRUE]

FdLabels == MapFd("labels", "pkg.labels", "int32", ScalarFd("value", "pkg.labels.value", FALSE, "string"))
FdFlags == MapFd("flags", "pkg.flags", "bool", ScalarFd("value", "pkg.flags.value", FALSE, "int64"))
FdGrades ==
    MapFd("grades", "pkg.grades", "string",
          [enumValues |-> (0 :> "LOW" @@ 1 :> "HIGH")]
              @@ ScalarFd("value", "pkg.grades.value", FALSE, "enum"))

RuleEmpty == [valid |-> TRUE, set |-> <<>>]
RuleNamed == [valid |-> TRUE, set |-> <<[fd |-> FdName, v |-> "r"]>>]
RuleNested ==
    [valid |-> TRUE,
     set |-> <<[fd |-> FdLabels, v |-> (10 :> "x")], [fd |-> FdRule, v |-> RuleNamed]>>]

\* a message with an enum field: grade = 1 (declared) or 7 (not declared)
FdGrade ==
    [enumValues |-> (0 :> "LOW" @@ 1 :> "HIGH")]
        @@ ScalarFd("grade", "pkg.Rule.grade", FALSE, "enum")
RuleGraded(n) == [valid |-> TRUE, set |-> <<[fd |-> FdGrade, v |-> n], [fd |-> FdName, v |-> "g"]>>]

\* The populated (fd, v) pairs an options message can hold.  Range never
\* yields an empty list or an empty map: such a field is not populated.
OptionFields ==
    <<[fd |-> FdDeprecated, v |-> TRUE],
      [fd |-> FdDeprecated, v |-> FALSE],
      [fd |-> FdGoPackage, v |-> "x"],
      [fd |-> FdMyOpt, v |-> 0],
      [fd |-> FdMyOpt, v |-> 7],
      [fd |-> FdMyOpt, v |-> -3],
      [fd |-> FdTopLevelExt, v |-> "d"],
      [fd |-> FdLevel, v |-> 1],
      [fd |-> FdLevel, v |-> 5],
      [fd |-> FdTags, v |-> <<"a">>],
      [fd |-> FdTags, v |-> <<"a", "b">>],
      [fd |-> FdLevels, v |-> <<0, 5>>],
      [fd |-> FdRule, v |-> RuleEmpty],
      [fd |-> FdRule, v |-> RuleNamed],
      [fd |-> FdRule, v |-> RuleNested],
      [fd |-> FdRule, v |-> RuleGraded(1)],
      [fd |-> FdRule, v |-> RuleGraded(7)],
      [fd |-> FdLabels, v |-> (1 :> "a" @@ 2 :> "b")],
      [fd |-> FdLabels, v |-> (12 :> "c")],
      [fd |-> FdLabels, v |-> (-4 :> "")],
      [fd |-> FdFlags, v |-> (TRUE :> 1 @@ FALSE :> 0)],
      [fd |-> FdFlags, v |-> (TRUE :> 30)],
      [fd |-> FdGrades, v |-> ("p" :> 0 @@ "q" :> 9)]>>

-----------------------------------------------------------------------------
(* Descriptors.  A declaration (what the schema source says) is linked     *)
(* into the descriptor the loader reads: protoreflect derives FullName()   *)
(* from the enclosing scope, Parent() and ParentFile() from the nesting,   *)
(* and ContainingOneof().Index() from the position of the oneof in         *)
(* Oneofs().                                                               *)

QName(scope, name) == IF scope = "" THEN name ELSE scope \o "." \o name

NoOneof == [present |-> FALSE, index |-> -1, isSynthetic |-> FALSE]

OneofOf(oneofs, name) ==
    IF name = "" THEN NoOneof
    ELSE LET i == CHOOSE j \in 1..Len(oneofs) : oneofs[j].name = name
         IN [present |-> TRUE, index |-> i - 1, isSynthetic |-> oneofs[i].isSynthetic]

LinkField(msgFullName, oneofs, f) ==
    [containingOneof |-> OneofOf(oneofs, f.oneof), message |-> msgFullName] @@ f

LinkEnum(scope, file, parent, e) ==
    [fullName |-> QName(scope, e.name), parent |-> parent, file |-> file] @@ e

LinkExtension(scope, file, x) ==
    [fullName |-> QName(scope, x.name), file |-> file] @@ x

LinkService(scope, file, sv) ==
    [fullName |-> QName(scope, sv.name), file |-> file] @@ sv

RECURSIVE LinkMessage(_, _, _, _)
LinkMessage(scope, file, parent, m) ==
    LET full == QName(scope, m.name)
    IN [name |-> m.name, fullName |-> full, parent |-> parent, file |-> file,
        isMapEntry |-> m.isMapEntry, opts |-> m.opts, oneofs |-> m.oneofs,
        fields |-> [i \in 1..Len(m.fields) |-> LinkField(full, m.oneofs, m.fields[i])],
        messages |-> [i \in 1..Len(m.messages) |-> LinkMessage(full, file, full, m.messages[i])],
        enums |-> [i \in 1..Len(m.enums) |-> LinkEnum(full, file, full, m.enums[i])],
        extensions |-> [i \in 1..Len(m.extensions) |-> LinkExtension(full, file, m.extensions[i])]]

LinkFile(f) ==
    [path |-> f.path, pkg |-> f.pkg, syntax |-> f.syntax, opts |-> f.opts,
     imports |-> f.imports,
     messages |-> [i \in 1..Len(f.messages) |-> LinkMessage(f.pkg, f.path, Nil, f.messages[i])],
     enums |-> [i \in 1..Len(f.enums) |-> LinkEnum(f.pkg, f.path, Nil, f.enums[i])],
     services |-> [i \in 1..Len(f.services) |-> LinkService(f.pkg, f.path, f.services[i])],
     extensions |-> [i \in 1..Len(f.extensions) |-> LinkExtension(f.pkg, f.path, f.extensions[i])]]

(* Declarations *)

DeclField(name, number, kind, typeName, cardinality, oneof) ==
    [name |-> name, number |-> number, kind |-> kind, typeName |-> typeName,
     cardinality |-> cardinality, oneof |-> oneof,
     isList |-> (cardinality = "repeated"), isMap |-> FALSE,
     mapKeyKind |-> Nil, mapValueKind |-> Nil, mapValueType |-> Nil,
     hasDefault |-> FALSE, default |-> Nil, hasOptionalKeyword |-> FALSE,
     jsonName |-> name, opts |-> InvalidOpts]

DeclMapField(name, number, entryType, keyKind, valueKind, valueType) ==
    [DeclField(name, number, "message", entryType, "repeated", "")
        EXCEPT !.isList = FALSE, !.isMap = TRUE, !.mapKeyKind = keyKind,
               !.mapValueKind = valueKind, !.mapValueType = valueType]

DeclMessage(name, oneofs, fields, messages, enums, extensions) ==
    [name |-> name, isMapEntry |-> FALSE, opts |-> InvalidOpts, oneofs |-> oneofs,
     fields |-> fields, messages |-> messages, enums |-> enums, extensions |-> extensions]

DeclMapEntry(name, keyKind, valueKind, valueType) ==
    [DeclMessage(name, <<>>,
        <<DeclField("key", 1, keyKind, Nil, "optional", ""),
          DeclField("value", 2, valueKind, valueType, "optional", "")>>,
        <<>>, <<>>, <<>>) EXCEPT !.isMapEntry = TRUE]

DeclOneof(name, isSynthetic) == [name |-> name, isSynthetic |-> isSynthetic, opts |-> InvalidOpts]

DeclEnum(name, values) == [name |-> name, opts |-> InvalidOpts, values |-> values]

DeclValue(name, number) == [name |-> name, number |-> number, opts |-> InvalidOpts]

DeclMethod(name, input, output, clientStreaming, serverStreaming) ==
    [name |-> name, input |-> input, output |-> output,
     clientStreaming |-> clientStreaming, serverStreaming |-> serverStreaming,
     opts |-> InvalidOpts]

DeclService(name, methods) == [name |-> name, opts |-> InvalidOpts, methods |-> methods]

DeclExtension(name, number, extendee, kind, typeName) ==
    [name |-> name, number |-> number, extendee |-> extendee, kind |-> kind,
     typeName |-> typeName, opts |-> InvalidOpts]

DeclImport(path, isPublic, isWeak) == [path |-> path, isPublic |-> isPublic, isWeak |-> isWeak]

-----------------------------------------------------------------------------
(* The files the parser hands to LoadFiles.                                *)

DeclDeep ==
    DeclMessage("Deep", <<>>,
        <<DeclField("a", 1, "message", "pkg.Outer", "optional", "")>>,
        <<>>,
        <<DeclEnum("Mode", <<DeclValue("ON", 0)>>)>>,
        <<DeclExtension("level", 50002, "google.protobuf.FieldOptions", "enum", "pkg.Status")>>)

DeclInner ==
    DeclMessage("Inner", <<>>,
        <<DeclField("x", 1, "int32", Nil, "optional", "")>>,
        <<DeclDeep>>, <<>>, <<>>)

DeclOuter ==
    [DeclMessage("Outer",
        <<DeclOneof("choice", FALSE), DeclOneof("_c", TRUE)>>,
        <<[DeclField("a", 1, "int32", Nil, "optional", "choice")
              EXCEPT !.opts = OptsWith(<<[fd |-> FdMyOpt, v |-> 7]>>)],
          DeclField("b", 2, "string", Nil, "optional", "choice"),
          [DeclField("c", 3, "bool", Nil, "optional", "_c") EXCEPT !.hasOptionalKeyword = TRUE],
          [DeclField("d", 4, "enum", "pkg.Status", "repeated", "") EXCEPT !.jsonName = "dList"]>>,
        <<DeclInner>>,
        <<DeclEnum("Color", <<DeclValue("RED", 0)>>)>>,
        <<DeclExtension("tag", 50001, "google.protobuf.FieldOptions", "string", Nil)>>)
     EXCEPT !.opts = OptsWith(<<[fd |-> FdDeprecated, v |-> TRUE]>>)]

DeclFileA ==
    [path |-> "a.proto", pkg |-> "pkg", syntax |-> "Proto3",
     opts |-> OptsWith(<<[fd |-> FdGoPackage, v |-> "x"]>>),
     imports |-> <<DeclImport("dep1.proto", TRUE, FALSE), DeclImport("dep2.proto", FALSE, TRUE)>>,
     messages |-> <<DeclOuter>>,
     enums |-> <<DeclEnum("Status", <<DeclValue("UNKNOWN", 0), DeclValue("OK", 1)>>)>>,
     services |-> <<DeclService("Svc",
                      <<DeclMethod("Get", "pkg.Outer", "pkg.Outer.Inner", FALSE, TRUE)>>)>>,
     extensions |-> <<DeclExtension("my_opt", 50000, "google.protobuf.MessageOptions", "int32", Nil)>>]

\* b.proto declares pkg.Outer again: the same message key as a.proto
DeclFileB ==
    [path |-> "b.proto", pkg |-> "pkg", syntax |-> "Editions", opts |-> EmptyOpts,
     imports |-> <<>>,
     messages |-> <<DeclMessage("Outer", <<>>,
                      <<DeclMapField("kids", 1, "pkg.Outer.KidsEntry", "string", "message", "pkg.Outer")>>,
                      <<DeclMapEntry("KidsEntry", "string", "message", "pkg.Outer")>>,
                      <<>>, <<>>)>>,
     enums |-> <<>>, services |-> <<>>, extensions |-> <<>>]

\* c.proto has no package
DeclFileC ==
    [path |-> "c.proto", pkg |-> "", syntax |-> "Proto2", opts |-> InvalidOpts,
     imports |-> <<DeclImport("a.proto", FALSE, FALSE)>>,
     messages |-> <<DeclMessage("M", <<>>,
                      <<DeclField("id", 1, "int32", Nil, "required", ""),
                        [DeclField("label", 2, "string", Nil, "optional", "")
                            EXCEPT !.hasDefault = TRUE, !.default = "none", !.hasOptionalKeyword = TRUE],
                        [DeclField("n", 3, "sint32", Nil, "optional", "")
                            EXCEPT !.hasDefault = TRUE, !.default = -12, !.hasOptionalKeyword = TRUE],
                        [DeclField("on", 4, "bool", Nil, "optional", "")
                            EXCEPT !.hasDefault = TRUE, !.default = TRUE, !.hasOptionalKeyword = TRUE]>>,
                      <<>>, <<>>, <<>>)>>,
     enums |-> <<DeclEnum("Kind", <<DeclValue("K0", 0)>>)>>,
     services |-> <<>>,
     extensions |-> <<DeclExtension("m_ext", 100, "M", "message", "M")>>]

Paths == {"a.proto", "b.proto", "c.proto"}

Decl(path) ==
    CASE path = "a.proto" -> DeclFileA
      [] path = "b.proto" -> DeclFileB
      [] path = "c.proto" -> DeclFileC

\* the linker.File behind a path
File(path) == LinkFile(Decl(path))

RECURSIVE SeqsUpTo(_, _)
SeqsUpTo(S, n) ==
    IF n = 0 THEN {<<>>}
    ELSE LET shorter == SeqsUpTo(S, n - 1)
         IN shorter \cup {Append(q, x) : q \in shorter, x \in S}

Batches == SeqsUpTo(Paths, MaxBatch)

-----------------------------------------------------------------------------
(* The walk.  Each operator returns the rows its Go function hands to      *)
(* AppendRow, in order, as <<[table, row, err], ...>>: err is the message  *)
(* the function wraps the appender's error in when that AppendRow fails.   *)
(* The functions return at the first failing AppendRow, so the rows queued *)
(* by a failing walk are a prefix of this sequence.                        *)

Emit(table, row, err) == <<[table |-> table, row |-> row, err |-> err]>>

loadExtension(ext, fileName) ==
    LET fullName == ext.fullName
        typeName == IF ext.kind \in {"message", "group"} THEN ext.typeName
                    ELSE IF ext.kind = "enum" THEN ext.typeName
                    ELSE Nil
        extOpts == extractOptions(ext.opts)
    IN Emit("extensions",
            [full_name |-> fullName, name |-> ext.name, number |-> ext.number,
             file |-> fileName, extendee |-> ext.extendee, type |-> ext.kind,
             type_name |-> typeName, options |-> extOpts],
            "failed to append extension " \o fullName)

RECURSIVE loadMethods(_, _, _)
loadMethods(svc, fullName, i) ==
    IF i > Len(svc.methods) THEN <<>>
    ELSE LET method == svc.methods[i]
             methodFullName == fullName \o "." \o method.name
             methodOpts == extractOptions(method.opts)
         IN Emit("methods",
                 [full_name |-> methodFullName, name |-> method.name, service |-> fullName,
                  input_type |-> method.input, output_type |-> method.output,
                  client_streaming |-> method.clientStreaming,
                  server_streaming |-> method.serverStreaming, options |-> methodOpts],
                 "failed to append method " \o methodFullName)
            \o loadMethods(svc, fullName, i + 1)

loadService(svc, fileName) ==
    LET fullName == svc.fullName
        svcOpts == extractOptions(svc.opts)
    IN Emit("services",
            [full_name |-> fullName, name |-> svc.name, file |-> fileName, options |-> svcOpts],
            "failed to append service " \o fullName)
       \o loadMethods(svc, fullName, 1)

RECURSIVE loadEnumValues(_, _, _)

\* the value row refers to its enum by the enum's local name
loadEnumValues_localEnum(enum, fullName, i) ==
    IF i > Len(enum.values) THEN <<>>
    ELSE LET val == enum.values[i]
             valID == fullName \o "." \o val.name
         IN Emit("enum_values",
                 [id |-> valID, name |-> val.name, number |-> val.number,
                  enum |-> enum.name, options |-> extractOptions(val.opts)],
                 "failed to append enum value " \o valID)
            \o loadEnumValues(enum, fullName, i + 1)

loadEnumValues(enum, fullName, i) ==
    IF i > Len(enum.values) THEN <<>>
    ELSE LET val == enum.values[i]
             valID == fullName \o "." \o val.name
             valOpts == extractOptions(val.opts)
         IN Emit("enum_values",
                 [id |-> valID, name |-> val.name, number |-> val.number,
                  enum |-> fullName, options |-> valOpts],
                 "failed to append enum value " \o valID)
            \o loadEnumValues(enum, fullName, i + 1)

loadEnum(enum, fileName, parentMsg) ==
    LET fullName == enum.fullName
        parent == parentMsg
        enumOpts == extractOptions(enum.opts)
    IN Emit("enums",
            [full_name |-> fullName, name |-> enum.name, file |-> fileName,
             parent_message |-> parent, options |-> enumOpts],
            "failed to append enum " \o fullName)
       \o loadEnumValues(enum, fullName, 1)

\* a field of a synthetic oneof is linked as well
linkToOneof_anyOneof(field, fieldID, oneofIDs) ==
    IF field.containingOneof.present
    THEN Emit("oneof_fields",
              [oneof_id |-> oneofIDs[field.containingOneof.index], field_id |-> fieldID],
              "failed to link field to oneof")
    ELSE <<>>

\* "Link to oneof": the junction row of a field, if it gets one
linkToOneof(field, fieldID, oneofIDs) ==
    IF field.containingOneof.present /\ ~field.containingOneof.isSynthetic
    THEN LET oneofIdx == field.containingOneof.index
         IN IF oneofIdx \in DOMAIN oneofIDs
            THEN Emit("oneof_fields",
                      [oneof_id |-> oneofIDs[oneofIdx], field_id |-> fieldID],
                      "failed to link field to oneof")
            ELSE <<>>
    ELSE <<>>

\* the field's key is its local name alone
loadField_localID(field, msgFullName, oneofIDs) ==
    LET fieldID == field.name
    IN Emit("fields",
            [id |-> fieldID, name |-> field.name, number |-> field.number,
             message |-> msgFullName, type |-> field.kind, type_name |-> field.typeName,
             label |-> field.cardinality, is_repeated |-> field.isList,
             is_optional |-> field.hasOptionalKeyword, is_map |-> field.isMap,
             map_key_type |-> field.mapKeyKind, map_value_type |-> field.mapValueType,
             default_value |-> Nil, json_name |-> field.jsonName,
             options |-> extractOptions(field.opts)],
            "failed to append field " \o fieldID)
       \o linkToOneof(field, fieldID, oneofIDs)

loadField(field, msgFullName, oneofIDs) ==
    LET fieldID == msgFullName \o "." \o field.name
        typeName == IF field.kind \in {"message", "group"} THEN field.typeName
                    ELSE IF field.kind = "enum" THEN field.typeName
                    ELSE Nil
        label == CASE field.cardinality = "required" -> "required"
                   [] field.cardinality = "repeated" -> "repeated"
                   [] field.cardinality = "optional" -> "optional"
                   [] OTHER -> Nil
        isMap == field.isMap
        mapKeyType == IF isMap THEN field.mapKeyKind ELSE Nil
        mapValueType == IF isMap
                        THEN (IF field.mapValueKind = "message" THEN field.mapValueType
                              ELSE IF field.mapValueKind = "enum" THEN field.mapValueType
                              ELSE field.mapValueKind)
                        ELSE Nil
        defaultVal == IF field.hasDefault THEN Sprint(field.kind, field.default) ELSE Nil
        fieldOpts == extractOptions(field.opts)
    IN Emit("fields",
            [id |-> fieldID, name |-> field.name, number |-> field.number,
             message |-> msgFullName, type |-> field.kind, type_name |-> typeName,
             label |-> label, is_repeated |-> field.isList,
             is_optional |-> field.hasOptionalKeyword, is_map |-> isMap,
             map_key_type |-> mapKeyType, map_value_type |-> mapValueType,
             default_value |-> defaultVal, json_name |-> field.jsonName,
             options |-> fieldOpts],
            "failed to append field " \o fieldID)
       \o linkToOneof(field, fieldID, oneofIDs)


\* the identifier is derived from the position of the oneof
OneofIDs_byPosition(msg, fullName) ==
    [i \in 0..(Len(msg.oneofs) - 1) |-> fullName \o "." \o Itoa(i)]

\* oneofIDs[i] = fmt.Sprintf("%s.%s", fullName, oneof.Name()), for every i of msg.Oneofs()
OneofIDs(msg, fullName) ==
    [i \in 0..(Len(msg.oneofs) - 1) |-> fullName \o "." \o msg.oneofs[i + 1].name]

\* the loop over msg.Oneofs(): one AppendRow per oneof, keyed oneofIDs[i]
RECURSIVE loadOneofs(_, _, _, _)
loadOneofs(msg, fullName, oneofIDs, i) ==
    IF i >= Len(msg.oneofs) THEN <<>>
    ELSE LET oneof == msg.oneofs[i + 1]
             oneofID == oneofIDs[i]
             oneofOpts == extractOptions(oneof.opts)
         IN Emit("oneofs",
                 [id |-> oneofID, name |-> oneof.name, message |-> fullName,
                  options |-> oneofOpts],
                 "failed to append oneof " \o oneofID)
            \o loadOneofs(msg, fullName, oneofIDs, i + 1)

RECURSIVE loadMessage(_, _, _)

\* the recursion hands its own parent on instead of the current message
loadMessage_staleParent(msg, fileName, parentMsg) ==
    LET fullName == msg.fullName
        oneofIDs == OneofIDs(msg, fullName)
    IN Emit("messages",
            [full_name |-> fullName, name |-> msg.name, file |-> fileName,
             parent_message |-> parentMsg, is_map_entry |-> msg.isMapEntry,
             options |-> extractOptions(msg.opts)],
            "failed to append message " \o fullName)
       \o loadOneofs(msg, fullName, oneofIDs, 0)
       \o Concat([i \in 1..Len(msg.fields) |-> loadField(msg.fields[i], fullName, oneofIDs)])
       \o Concat([i \in 1..Len(msg.messages) |-> loadMessage(msg.messages[i], fileName, parentMsg)])
       \o Concat([i \in 1..Len(msg.enums) |-> loadEnum(msg.enums[i], fileName, parentMsg)])
       \o Concat([i \in 1..Len(msg.extensions) |-> loadExtension(msg.extensions[i], fileName)])

\* the Field rows are queued before the Oneof rows
loadMessage_fieldsFirst(msg, fileName, parentMsg) ==
    LET fullName == msg.fullName
        oneofIDs == OneofIDs(msg, fullName)
    IN Emit("messages",
            [full_name |-> fullName, name |-> msg.name, file |-> fileName,
             parent_message |-> parentMsg, is_map_entry |-> msg.isMapEntry,
             options |-> extractOptions(msg.opts)],
            "failed to append message " \o fullName)
       \o Concat([i \in 1..Len(msg.fields) |-> loadField(msg.fields[i], fullName, oneofIDs)])
       \o loadOneofs(msg, fullName, oneofIDs, 0)
       \o Concat([i \in 1..Len(msg.messages) |-> loadMessage(msg.messages[i], fileName, fullName)])
       \o Concat([i \in 1..Len(msg.enums) |-> loadEnum(msg.enums[i], fileName, fullName)])
       \o Concat([i \in 1..Len(msg.extensions) |-> loadExtension(msg.extensions[i], fileName)])

loadMessage(msg, fileName, parentMsg) ==
    LET fullName == msg.fullName
        parent == parentMsg
        msgOpts == extractOptions(msg.opts)
        oneofIDs == OneofIDs(msg, fullName)
    IN Emit("messages",
            [full_name |-> fullName, name |-> msg.name, file |-> fileName,
             parent_message |-> parent, is_map_entry |-> msg.isMapEntry,
             options |-> msgOpts],
            "failed to append message " \o fullName)
       \o loadOneofs(msg, fullName, oneofIDs, 0)
       \o Concat([i \in 1..Len(msg.fields) |-> loadField(msg.fields[i], fullName, oneofIDs)])
       \o Concat([i \in 1..Len(msg.messages) |-> loadMessage(msg.messages[i], fileName, fullName)])
       \o Concat([i \in 1..Len(msg.enums) |-> loadEnum(msg.enums[i], fileName, fullName)])
       \o Concat([i \in 1..Len(msg.extensions) |-> loadExtension(msg.extensions[i], fileName)])

\* the two flags are passed in the wrong order
appendDependency_swapped(fileName, imp) ==
    Emit("dependencies",
         [file |-> fileName, dependency |-> imp.path,
          is_public |-> imp.isWeak, is_weak |-> imp.isPublic],
         "failed to append dependency")

\* bl.dependencies.AppendRow(fileName, imp.Path(), imp.IsPublic, imp.IsWeak)
appendDependency(fileName, imp) ==
    Emit("dependencies",
         [file |-> fileName, dependency |-> imp.path,
          is_public |-> imp.isPublic, is_weak |-> imp.isWeak],
         "failed to append dependency")

\* the top-level enums are walked before the top-level messages
loadFile_enumsFirst(f) ==
    LET fileName == f.path
        syntax == CASE f.syntax = "Proto3" -> "proto3"
                    [] f.syntax = "Editions" -> "editions"
                    [] OTHER -> "proto2"
    IN Emit("files",
            [name |-> fileName, package |-> f.pkg, syntax |-> syntax,
             options |-> extractOptions(f.opts)],
            "failed to append file " \o fileName)
       \o Concat([i \in 1..Len(f.imports) |-> appendDependency(fileName, f.imports[i])])
       \o Concat([i \in 1..Len(f.enums) |-> loadEnum(f.enums[i], fileName, Nil)])
       \o Concat([i \in 1..Len(f.messages) |-> loadMessage(f.messages[i], fileName, Nil)])
       \o Concat([i \in 1..Len(f.services) |-> loadService(f.services[i], fileName)])
       \o Concat([i \in 1..Len(f.extensions) |-> loadExtension(f.extensions[i], fileName)])

loadFile(f) ==
    LET fileName == f.path
        pkgName == f.pkg
        syntax == CASE f.syntax = "Proto3" -> "proto3"
                    [] f.syntax = "Editions" -> "editions"
                    [] OTHER -> "proto2"
        fileOpts == extractOptions(f.opts)
        imports == f.imports
    IN Emit("files",
            [name |-> fileName, package |-> pkgName, syntax |-> syntax, options |-> fileOpts],
            "failed to append file " \o fileName)
       \o Concat([i \in 1..Len(imports) |-> appendDependency(fileName, imports[i])])
       \o Concat([i \in 1..Len(f.messages) |-> loadMessage(f.messages[i], fileName, Nil)])
       \o Concat([i \in 1..Len(f.enums) |-> loadEnum(f.enums[i], fileName, Nil)])
       \o Concat([i \in 1..Len(f.services) |-> loadService(f.services[i], fileName)])
       \o Concat([i \in 1..Len(f.extensions) |-> loadExtension(f.extensions[i], fileName)])

\* for _, f := range files { loadFile(bl, f) }: the rows of the whole batch
Emissions(batch) == Concat([i \in 1..Len(batch) |-> loadFile(File(batch[i]))])

-----------------------------------------------------------------------------
(* The store and the bulk loader.                                          *)

\* the appenders of bulkLoader, in the order newBulkLoader opens them and
\* Flush and Close visit them
Tables ==
    <<"files", "messages", "fields", "enums", "enum_values", "services",
      "methods", "extensions", "oneofs", "oneof_fields", "dependencies">>

TableSet == Range(Tables)

\* the PRIMARY KEY of createSchema's tables
PrimaryKey(table, row) ==
    CASE table = "files" -> <<row.name>>
      [] table \in {"messages", "enums", "services", "methods", "extensions"} -> <<row.full_name>>
      [] table \in {"fields", "enum_values", "oneofs"} -> <<row.id>>
      [] table = "oneof_fields" -> <<row.oneof_id, row.field_id>>
      [] table = "dependencies" -> <<row.file, row.dependency>>

\* The store accepts the rows an appender flushes when their primary keys
\* are distinct from each other and from the keys already in the table.
Accepts(table, visible, rows) ==
    /\ \A i, j \in 1..Len(rows) :
          i # j => PrimaryKey(table, rows[i]) # PrimaryKey(table, rows[j])
    /\ \A i \in 1..Len(rows) : \A r \in visible :
          PrimaryKey(table, rows[i]) # PrimaryKey(table, r)

VARIABLES
    store,        \* table -> the rows visible to queries
    appender,     \* table -> "nil" | "open" | "closed": the bulkLoader's fields
    pending,      \* table -> rows queued in the appender, not yet flushed
    files,        \* the argument of the running LoadFiles call (file paths)
    walk,         \* the AppendRow calls the walk of files makes, in order
    pc,           \* "idle" | "open" | "load" | "flush" | "defer" | "done"
    pos,          \* appenders opened / rows walked / appenders flushed so far
    result,       \* what LoadFiles returned: Nil (running), "ok", or the error
    log,          \* history: the rows AppendRow accepted during this call
    flushed,      \* history: the flushes of this call, explicit and by Close
    failedFlush,  \* the appender whose Flush the sink failed, or Nil
    calls,        \* LoadFiles calls made so far
    store0,       \* history: the store when the running call began
    optsIn,       \* encoder: the options message under construction
    optsOut,      \* encoder: what extractOptions returned for it
    tables,       \* the tables that exist in the database
    schemaErr     \* what createSchema, run again, returned: Nil (not run), "ok" or the error

VARIABLES
    parseArgs,    \* parser: the arguments of the last ParseFiles call
    parseRet      \* parser: what that call returned, (result, error)

VARIABLES
    phase,         \* main: "args" | "shell" (interactiveMode is reading lines) | "exit"
    currentFormat, \* main: the format flag, then interactiveMode's currentFormat
    session,       \* history: the lines submitted so far, whether each made a
                   \* query run, and the function that rendered its rows
    out,           \* history: the last executeQuery call and what it wrote
    rlHistory      \* main: the entries readline holds in memory, oldest first

VARIABLES
    program,      \* tui: "off" | "running" | "quitting" (Update returned
                  \* tea.Quit, its QuitMsg is on the way) | "quit"
    model,        \* tui: the Model m that Update receives and returns
    historyFile,  \* the lines of ~/.pbql_history, which tui and readline share
    typed,        \* tui: the insertions into the input so far
    last          \* history: the last message Update handled and what it did

parserVars == <<parseArgs, parseRet>>
mainVars == <<phase, currentFormat, session, out, rlHistory>>
tuiVars == <<program, model, historyFile, typed, last>>
frontVars == <<parserVars, mainVars, tuiVars>>

loaderVars == <<store, appender, pending, files, walk, pc, pos, result, log, flushed,
                failedFlush, calls, store0, tables, schemaErr>>
encoderVars == <<optsIn, optsOut>>
vars == <<store, appender, pending, files, walk, pc, pos, result, log, flushed,
          failedFlush, calls, store0, optsIn, optsOut, tables, schemaErr, frontVars>>

Unset == [type |-> "unset", val |-> Nil]

\* a nil *Result, and the state before ParseFiles has returned
NilResult == [isNil |-> TRUE, Files |-> <<>>, Errors |-> <<>>]
NotReturned == [returned |-> FALSE, result |-> NilResult, err |-> Nil]

\* before the first executeQuery call
NotCalled == [called |-> FALSE, query |-> "", format |-> "",
              answer |-> [err |-> Nil, cols |-> <<>>, rows |-> <<>>],
              err |-> Nil, text |-> ""]

\* before tui.Run: no Model yet, no message handled yet
NoModel == [format |-> "", input |-> "", cursor |-> 0,
            results |-> [headers |-> <<>>, colWidth |-> 0, rows |-> <<>>, text |-> ""],
            width |-> 0, height |-> 0,
            inputHeight |-> 0, tableHeight |-> 0, history |-> <<>>, historyPos |-> -1]
NoMsg == [msg |-> [type |-> "none", key |-> "", runes |-> FALSE, width |-> 0, height |-> 0],
          quit |-> FALSE, toInput |-> FALSE, line |-> ""]

Init ==
    /\ store = [t \in TableSet |-> {}]
    /\ appender = [t \in TableSet |-> "nil"]
    /\ pending = [t \in TableSet |-> <<>>]
    /\ files = <<>>
    /\ walk = <<>>
    /\ pc = "idle"
    /\ pos = 0
    /\ result = Nil
    /\ log = <<>>
    /\ flushed = <<>>
    /\ failedFlush = Nil
    /\ calls = 0
    /\ store0 = [t \in TableSet |-> {}]
    /\ optsIn = NilOpts
    /\ optsOut = Unset
    /\ tables = TableSet
    /\ schemaErr = Nil
    /\ parseArgs = [files |-> <<>>, opts |-> [Lenient |-> FALSE]]
    /\ parseRet = NotReturned
    /\ phase = "args"
    /\ currentFormat = "table"
    /\ session = <<>>
    /\ out = NotCalled
    /\ program = "off"
    /\ model = NoModel
    /\ historyFile = <<>>
    /\ rlHistory = <<>>
    /\ typed = 0
    /\ last = NoMsg

FlushEvent(table, via, ok) ==
    [table |-> table, via |-> via, ok |-> ok, queued |-> Len(log)]

\* the len(files) == 0 return is missing
Call_noEarlyReturn(batch) ==
    /\ pc = "idle" \/ (pc = "done" /\ result = "ok")
    /\ calls < MaxCalls
    /\ calls' = calls + 1
    /\ files' = batch
    /\ walk' = Emissions(batch)
    /\ store0' = store
    /\ log' = <<>>
    /\ flushed' = <<>>
    /\ failedFlush' = Nil
    /\ pos' = 0
    /\ appender' = [t \in TableSet |-> "nil"]
    /\ pending' = [t \in TableSet |-> <<>>]
    /\ pc' = "open" /\ result' = Nil
    /\ UNCHANGED <<store, optsIn, optsOut, tables, schemaErr, frontVars>>

\* LoadFiles is entered.  main.go calls it once per input group and exits
\* on the first error, so a further call follows only a successful one.
\* len(files) == 0 returns nil at once.
Call(batch) ==
    /\ pc = "idle" \/ (pc = "done" /\ result = "ok")
    /\ calls < MaxCalls
    /\ calls' = calls + 1
    /\ files' = batch
    /\ walk' = Emissions(batch)
    /\ store0' = store
    /\ log' = <<>>
    /\ flushed' = <<>>
    /\ failedFlush' = Nil
    /\ pos' = 0
    /\ appender' = [t \in TableSet |-> "nil"]
    /\ pending' = [t \in TableSet |-> <<>>]
    /\ IF Len(batch) = 0
       THEN pc' = "done" /\ result' = "ok"
       ELSE pc' = "open" /\ result' = Nil
    /\ UNCHANGED <<store, optsIn, optsOut, tables, schemaErr, frontVars>>

\* newBulkLoader: NewAppenderFromConn succeeds for the next table
OpenAppender ==
    /\ pc = "open"
    /\ appender' = [appender EXCEPT ![Tables[pos + 1]] = "open"]
    /\ IF pos + 1 = Len(Tables)
       THEN pc' = (IF Len(walk) = 0 THEN "flush" ELSE "load") /\ pos' = 0
       ELSE pc' = "open" /\ pos' = pos + 1
    /\ UNCHANGED <<store, pending, files, walk, result, log, flushed, failedFlush,
                   calls, store0, optsIn, optsOut, tables, schemaErr, frontVars>>

\* the error is returned without bl.Close(): the appenders opened stay open
OpenAppenderFail_noClose ==
    /\ pc = "open"
    /\ result' = "failed to create " \o Tables[pos + 1] \o " appender"
    /\ pc' = "done"
    /\ UNCHANGED <<store, appender, pending, files, walk, pos, log, flushed, failedFlush,
                   calls, store0, optsIn, optsOut, tables, schemaErr, frontVars>>

\* newBulkLoader: NewAppenderFromConn fails for the next table; bl.Close()
\* releases the appenders opened so far (none of them holds a row) and
\* LoadFiles returns the error before its defer is registered.
OpenAppenderFail ==
    /\ pc = "open"
    /\ appender' = [t \in TableSet |-> IF appender[t] = "open" THEN "closed" ELSE appender[t]]
    /\ flushed' = flushed \o
          [i \in 1..pos |-> FlushEvent(Tables[i], "Close", TRUE)]
    /\ result' = "failed to create " \o Tables[pos + 1] \o " appender"
    /\ pc' = "done"
    /\ UNCHANGED <<store, pending, files, walk, pos, log, failedFlush, calls, store0,
                   optsIn, optsOut, tables, schemaErr, frontVars>>

\* the next AppendRow of the walk is accepted: the row is queued
AppendRow ==
    /\ pc = "load"
    /\ LET rows == walk
           e == rows[pos + 1]
       IN /\ pending' = [pending EXCEPT ![e.table] = Append(@, e.row)]
          /\ log' = Append(log, e)
          /\ IF pos + 1 = Len(rows)
             THEN pc' = "flush" /\ pos' = 0
             ELSE pc' = "load" /\ pos' = pos + 1
    /\ UNCHANGED <<store, appender, files, walk, result, flushed, failedFlush, calls,
                   store0, optsIn, optsOut, tables, schemaErr, frontVars>>

\* the error of the failed AppendRow is kept but the walk goes on with the
\* next row
AppendRowFail_goesOn ==
    /\ pc = "load"
    /\ result' = walk[pos + 1].err
    /\ IF pos + 1 = Len(walk)
       THEN pc' = "defer" /\ pos' = pos
       ELSE pc' = "load" /\ pos' = pos + 1
    /\ UNCHANGED <<store, appender, pending, files, walk, log, flushed,
                   failedFlush, calls, store0, optsIn, optsOut, tables, schemaErr, frontVars>>

\* the next AppendRow of the walk fails: the load function wraps the error
\* and every caller up to LoadFiles returns it
AppendRowFail ==
    /\ pc = "load"
    /\ result' = walk[pos + 1].err
    /\ pc' = "defer"
    /\ UNCHANGED <<store, appender, pending, files, walk, pos, log, flushed,
                   failedFlush, calls, store0, optsIn, optsOut, tables, schemaErr, frontVars>>


\* the error of a.Flush() is dropped and the loop goes on
FlushAppender_ignoreError ==
    /\ pc = "flush"
    /\ LET t == Tables[pos + 1]
           ok == Accepts(t, store[t], pending[t])
       IN /\ flushed' = Append(flushed, FlushEvent(t, "Flush", ok))
          /\ store' = [store EXCEPT ![t] = IF ok THEN @ \cup Range(pending[t]) ELSE @]
          /\ pending' = [pending EXCEPT ![t] = IF ok THEN <<>> ELSE @]
          /\ IF pos + 1 = Len(Tables)
             THEN pc' = "defer" /\ pos' = pos /\ result' = "ok"
             ELSE pc' = "flush" /\ pos' = pos + 1 /\ result' = result
    /\ UNCHANGED <<appender, files, walk, log, failedFlush, calls, store0, optsIn, optsOut, tables, schemaErr, frontVars>>

\* bl.Flush(): a.Flush() of the next appender.  The store takes the queued
\* rows unless a primary key is violated; the first error is returned, and
\* after the last appender LoadFiles returns nil.
FlushAppender ==
    /\ pc = "flush"
    /\ LET t == Tables[pos + 1]
           ok == Accepts(t, store[t], pending[t])
       IN /\ flushed' = Append(flushed, FlushEvent(t, "Flush", ok))
          /\ IF ok
             THEN /\ store' = [store EXCEPT ![t] = @ \cup Range(pending[t])]
                  /\ pending' = [pending EXCEPT ![t] = <<>>]
                  /\ IF pos + 1 = Len(Tables)
                     THEN pc' = "defer" /\ pos' = pos /\ result' = "ok"
                     ELSE pc' = "flush" /\ pos' = pos + 1 /\ result' = result
             ELSE /\ result' = "constraint violation in " \o t
                  /\ pc' = "defer"
                  /\ UNCHANGED <<store, pending, pos>>
    /\ UNCHANGED <<appender, files, walk, log, failedFlush, calls, store0, optsIn, optsOut, tables, schemaErr, frontVars>>

\* bl.Flush(): the sink fails the flush of the next appender for a reason of
\* its own; its rows stay queued in the appender
FlushAppenderFail ==
    /\ pc = "flush"
    /\ LET t == Tables[pos + 1]
       IN /\ flushed' = Append(flushed, FlushEvent(t, "Flush", FALSE))
          /\ failedFlush' = t
          /\ result' = "flush of " \o t \o " failed"
    /\ pc' = "defer"
    /\ UNCHANGED <<store, appender, pending, files, walk, pos, log, calls, store0,
                   optsIn, optsOut, tables, schemaErr, frontVars>>

\* what a.Close() of one appender leaves visible: Close flushes the rows
\* still queued (retry tells whether the sink, having failed the explicit
\* flush of this appender, takes them now)
CloseFlushes(t, retry) ==
    /\ Accepts(t, store[t], pending[t])
    /\ (t = failedFlush => retry)

\* defer bl.Close(): every appender that is not nil is closed, in order;
\* the error Close returns is dropped
Close ==
    /\ pc = "defer"
    /\ \E retry \in (IF failedFlush = Nil THEN {TRUE} ELSE BOOLEAN) :
          /\ store' = [t \in TableSet |->
                          IF appender[t] = "open" /\ CloseFlushes(t, retry)
                          THEN store[t] \cup Range(pending[t])
                          ELSE store[t]]
          /\ flushed' = flushed \o
                [i \in 1..Len(Tables) |-> FlushEvent(Tables[i], "Close", CloseFlushes(Tables[i], retry))]
    /\ pending' = [t \in TableSet |-> <<>>]
    /\ appender' = [t \in TableSet |-> IF appender[t] = "open" THEN "closed" ELSE appender[t]]
    /\ pc' = "done"
    /\ UNCHANGED <<files, walk, pos, result, log, failedFlush, calls, store0, optsIn, optsOut, tables, schemaErr, frontVars>>

Next ==
    \/ \E batch \in Batches : Call(batch)
    \/ OpenAppender
    \/ OpenAppenderFail
    \/ AppendRow
    \/ AppendRowFail
    \/ FlushAppender
    \/ FlushAppenderFail
    \/ Close

Spec == Init /\ [][Next]_vars

-----------------------------------------------------------------------------
(* The schema.  New has run createSchema on the fresh database (Init); the *)
(* operation is run again on the database as it stands.                    *)

\* createSchema: the CREATE TABLE statements are executed in order (the
\* order of Tables); a statement fails when its table exists, and the first
\* failure is returned, the statements before it having taken effect
createSchema ==
    /\ pc \in {"idle", "done"}
    /\ LET existing == {i \in 1..Len(Tables) : Tables[i] \in tables}
           created == {Tables[i] : i \in {j \in 1..Len(Tables) : \A k \in existing : j < k}}
       IN /\ tables' = tables \cup created
          /\ store' = [t \in TableSet |-> IF t \in created THEN {} ELSE store[t]]
          /\ schemaErr' = IF existing = {} THEN "ok" ELSE "failed to create schema"
    /\ UNCHANGED <<appender, pending, files, walk, pc, pos, result, log, flushed,
                   failedFlush, calls, store0, optsIn, optsOut, frontVars>>

NextSchema ==
    \/ Next
    \/ createSchema

SpecSchema == Init /\ [][NextSchema]_vars

-----------------------------------------------------------------------------
(* The encoder on its own: options messages are built field by field and   *)
(* handed to extractOptions.                                               *)

NewOptions(base) ==
    /\ optsIn' = base
    /\ optsOut' = Unset
    /\ UNCHANGED <<loaderVars, frontVars>>

\* a field becomes populated; Range visits each populated field once, in an
\* order the protobuf runtime does not specify
SetOption(o) ==
    /\ ~optsIn.isNil /\ optsIn.valid
    /\ Len(optsIn.set) < MaxSetFields
    /\ \A i \in 1..Len(optsIn.set) : optsIn.set[i].fd.fullName # o.fd.fullName
    /\ optsIn' = [optsIn EXCEPT !.set = Append(@, o)]
    /\ optsOut' = Unset
    /\ UNCHANGED <<loaderVars, frontVars>>

ExtractOptions ==
    /\ optsOut.type = "unset"
    /\ optsOut' = extractOptions(optsIn)
    /\ UNCHANGED <<optsIn>>
    /\ UNCHANGED <<loaderVars, frontVars>>

NextOptions ==
    \/ \E base \in {NilOpts, InvalidOpts, EmptyOpts} : NewOptions(base)
    \/ \E i \in 1..Len(OptionFields) : SetOption(OptionFields[i])
    \/ ExtractOptions

SpecOptions == Init /\ [][NextOptions]_vars

-----------------------------------------------------------------------------
(* The parser.  ParseFiles hands the sources to the protobuf compiler with *)
(* a reporter; what the compiler does with one source is an input: it      *)
(* links ("ok"), it reports one or two errors through the reporter         *)
(* ("bad1", "bad2"), or it fails without a report ("unreadable").          *)

MaxSources == 3

SourceKinds == {"ok", "bad1", "bad2", "unreadable"}

SourceName(i) == "f" \o Itoa(i) \o ".proto"

\* the errors the compiler has to report for source i, in order
Reports(i, kind) ==
    CASE kind = "bad1" -> <<SourceName(i) \o ":1:1: syntax error">>
      [] kind = "bad2" -> <<SourceName(i) \o ":1:1: syntax error",
                            SourceName(i) \o ":2:1: syntax error">>
      [] OTHER -> <<>>

\* the error the compiler returns for source i when it fails without a report
ResolveError(i) == "could not resolve path \"" \o SourceName(i) \o "\""

Failing(kinds) == {i \in 1..Len(kinds) : kinds[i] # "ok"}

RECURSIVE Collected(_, _)
\* the lenient reporter: every reported error is appended to collectedErrors
\* and nil is returned, so the compiler goes on.  The sources are compiled in
\* parallel: the reports of one source arrive in order, those of different
\* sources in any interleaving.  done[i] counts the reports source i has
\* made; the value is the set of the sequences the rest can be collected in.
Collected(kinds, done) ==
    LET waiting == {i \in 1..Len(kinds) : done[i] < Len(Reports(i, kinds[i]))}
    IN IF waiting = {} THEN {<<>>}
       ELSE UNION {{<<Reports(i, kinds[i])[done[i] + 1]>> \o rest :
                       rest \in Collected(kinds, [done EXCEPT ![i] = @ + 1])} :
                   i \in waiting}

\* compiler.Compile(ctx, files...): one entry per source, nil for a source
\* that did not link.  With the strict reporter the first report of a source
\* comes back as the error; sources are compiled in parallel, so `first`, the
\* failing source whose error is returned, is any of them.  With the lenient
\* reporter the reports are swallowed into `collected`, one of
\* Collected(kinds, ...), and the error is ErrInvalidSource.
Compile(kinds, lenient, first, collected) ==
    LET reported == {i \in Failing(kinds) : kinds[i] # "unreadable"}
        errOf(i) == IF kinds[i] = "unreadable" THEN ResolveError(i)
                    ELSE Reports(i, kinds[i])[1]
    IN [linked |-> [i \in 1..Len(kinds) |->
                       IF kinds[i] = "ok" THEN SourceName(i) ELSE Nil],
        collected |-> IF lenient THEN collected ELSE <<>>,
        err |-> IF Failing(kinds) = {} THEN Nil
                ELSE IF lenient /\ reported # {} THEN "parse failed: invalid proto source"
                ELSE errOf(first)]

\* ParseFiles that gives up on any compiler error, lenient or not
ParseFiles_lenientGivesUp(kinds, opts, first, collected) ==
    LET c == Compile(kinds, opts.Lenient, first, collected)
        res == [isNil |-> FALSE,
                Files |-> SelectSeq(c.linked, LAMBDA f : f # Nil),
                Errors |-> c.collected]
    IN IF c.err # Nil
       THEN [returned |-> TRUE, result |-> NilResult, err |-> c.err]
       ELSE [returned |-> TRUE, result |-> res, err |-> Nil]

\* ParseFiles(ctx, files, opts)
ParseFiles(kinds, opts, first, collected) ==
    LET c == Compile(kinds, opts.Lenient, first, collected)
        res == [isNil |-> FALSE,
                Files |-> SelectSeq(c.linked, LAMBDA f : f # Nil),
                Errors |-> c.collected]
    IN IF ~opts.Lenient /\ c.err # Nil
       THEN [returned |-> TRUE, result |-> NilResult, err |-> c.err]
       ELSE IF opts.Lenient /\ Len(res.Files) = 0 /\ c.err # Nil
       THEN [returned |-> TRUE, result |-> NilResult,
             err |-> "no files could be parsed: " \o c.err]
       ELSE [returned |-> TRUE, result |-> res, err |-> Nil]

\* a call of ParseFiles
Parse(kinds, opts) ==
    /\ ~parseRet.returned
    /\ parseArgs' = [files |-> kinds, opts |-> opts]
    /\ \E first \in (IF Failing(kinds) = {} THEN {0} ELSE Failing(kinds)),
          collected \in (IF opts.Lenient
                         THEN Collected(kinds, [i \in 1..Len(kinds) |-> 0])
                         ELSE {<<>>}) :
           parseRet' = ParseFiles(kinds, opts, first, collected)
    /\ UNCHANGED <<loaderVars, encoderVars, mainVars, tuiVars>>

NextParse ==
    \E kinds \in SeqsUpTo(SourceKinds, MaxSources), lenient \in BOOLEAN :
        Parse(kinds, [Lenient |-> lenient])

SpecParse == Init /\ [][NextParse]_vars

-----------------------------------------------------------------------------
(* What the descriptors of a batch say, read off the descriptors           *)
(* themselves: the messages, enums, extensions and fields at every depth,  *)
(* each with its own FullName(), Parent() and ParentFile().                *)

RECURSIVE MessagesIn(_)
MessagesIn(m) == <<m>> \o Concat([i \in 1..Len(m.messages) |-> MessagesIn(m.messages[i])])

FileMessages(f) == Concat([i \in 1..Len(f.messages) |-> MessagesIn(f.messages[i])])

BatchMessages(batch) == Concat([i \in 1..Len(batch) |-> FileMessages(File(batch[i]))])

BatchEnums(batch) ==
    Concat([i \in 1..Len(batch) |-> File(batch[i]).enums])
    \o LET ms == BatchMessages(batch) IN Concat([k \in 1..Len(ms) |-> ms[k].enums])

BatchExtensions(batch) ==
    Concat([i \in 1..Len(batch) |-> File(batch[i]).extensions])
    \o LET ms == BatchMessages(batch) IN Concat([k \in 1..Len(ms) |-> ms[k].extensions])

BatchFields(batch) ==
    LET ms == BatchMessages(batch) IN Concat([k \in 1..Len(ms) |-> ms[k].fields])

\* the imports of a file; a file outside the batches declares nothing the
\* loader reads
Imports(path) == IF path \in Paths THEN Decl(path).imports ELSE <<>>

\* a file together with what it imports publicly, transitively
RECURSIVE PublicImports(_, _)
PublicImports(path, depth) ==
    {path} \cup
    (IF depth = 0 THEN {}
     ELSE UNION {PublicImports(Imports(path)[i].path, depth - 1) :
                    i \in {j \in 1..Len(Imports(path)) : Imports(path)[j].isPublic}})

\* linker.ResolverFromFile(f): the resolver searches f, the files f imports
\* and their transitive public imports
ResolverFromFile(path) ==
    {path} \cup
    UNION {PublicImports(Imports(path)[i].path, Cardinality(Paths)) :
              i \in 1..Len(Imports(path))}

\* the full names of the extensions a file declares, at any depth
ExtensionNames(path) ==
    IF path \notin Paths THEN {}
    ELSE LET f == File(path)
             ms == FileMessages(f)
         IN {f.extensions[i].fullName : i \in 1..Len(f.extensions)}
            \cup UNION {{ms[k].extensions[i].fullName : i \in 1..Len(ms[k].extensions)} :
                           k \in 1..Len(ms)}

\* resolver.FindExtensionByName(name) finds the extension
FindExtensionByName(resolver, name) == \E path \in resolver : name \in ExtensionNames(path)

\* the resolver LoadFiles hands to newBulkLoader: that of files[0]
Resolver(batch) == ResolverFromFile(batch[1])

\* the number of elements of a sequence that satisfy P
Count(s, P(_)) == Cardinality({i \in 1..Len(s) : P(s[i])})

RowsOf(table) == SelectSeq(log, LAMBDA e : e.table = table)

\* LoadFiles has returned the error of a failed AppendRow
RowEmissionFailed ==
    /\ pc = "done"
    /\ Len(log) < Len(walk)
    /\ \A t \in TableSet : appender[t] = "closed"
    /\ result = walk[Len(log) + 1].err


\* every row of the batch is queued and no appender has been flushed yet
WalkDone == pc = "flush" /\ pos = 0 /\ flushed = <<>>

-----------------------------------------------------------------------------
(* C1  Atomic batch failure.  When LoadFiles has returned the error of a   *)
(* failed row emission, the call has made no row visible in any table:     *)
(* the store is what it was when the call began.                           *)
C1_AtomicBatchFailure == RowEmissionFailed => store = store0

(* C2  Oneof rows.  For every message of the batch and every oneof name,   *)
(* the walk queues as many Oneof rows as the batch has user-declared       *)
(* (non-synthetic) oneofs of that message and name, and every Oneof row    *)
(* queued is the row of a non-synthetic oneof.                             *)
C2_OneofRows ==
    WalkDone =>
        LET ms == BatchMessages(files)
            rows == RowsOf("oneofs")
            Declared(F, N) ==
                {ko \in UNION {{<<k, o>> : o \in 1..Len(ms[k].oneofs)} : k \in 1..Len(ms)} :
                    /\ ms[ko[1]].fullName = F
                    /\ ms[ko[1]].oneofs[ko[2]].name = N
                    /\ ~ms[ko[1]].oneofs[ko[2]].isSynthetic}
        IN /\ \A k \in 1..Len(ms) : \A o \in 1..Len(ms[k].oneofs) :
                Count(rows, LAMBDA e : e.row.message = ms[k].fullName
                                       /\ e.row.name = ms[k].oneofs[o].name)
                    = Cardinality(Declared(ms[k].fullName, ms[k].oneofs[o].name))
           /\ \A j \in 1..Len(rows) : Declared(rows[j].row.message, rows[j].row.name) # {}

(* C3  Oneof-field linkage.  A field has a junction row exactly when it    *)
(* belongs to a non-synthetic oneof; the oneof_id of that row is the id of *)
(* the Oneof row queued for that oneof of the same message, and its        *)
(* field_id is the id of the field's own Field row.                        *)
C3_OneofFieldLinkage ==
    WalkDone =>
        LET ms == BatchMessages(files)
            links == RowsOf("oneof_fields")
            frows == RowsOf("fields")
            orows == RowsOf("oneofs")
            FieldRows(m, f) ==
                {x \in 1..Len(frows) :
                    frows[x].row.message = m.fullName /\ frows[x].row.name = f.name}
            LinksOf(m, f) ==
                {x \in 1..Len(links) :
                    \E y \in FieldRows(m, f) : links[x].row.field_id = frows[y].row.id}
            Linked(f) == f.containingOneof.present /\ ~f.containingOneof.isSynthetic
        IN /\ \A k \in 1..Len(ms) : \A j \in 1..Len(ms[k].fields) :
                LET m == ms[k]
                    f == m.fields[j]
                IN IF Linked(f)
                   THEN /\ Cardinality(LinksOf(m, f)) = Cardinality(FieldRows(m, f))
                        /\ FieldRows(m, f) # {}
                        /\ \A x \in LinksOf(m, f) : \E y \in 1..Len(orows) :
                              /\ orows[y].row.id = links[x].row.oneof_id
                              /\ orows[y].row.message = m.fullName
                              /\ orows[y].row.name = m.oneofs[f.containingOneof.index + 1].name
                   ELSE LinksOf(m, f) = {}
           /\ \A x \in 1..Len(links) : \E k \in 1..Len(ms) : \E j \in 1..Len(ms[k].fields) :
                Linked(ms[k].fields[j]) /\ x \in LinksOf(ms[k], ms[k].fields[j])

\* a.proto is loaded: a and b are linked to choice, c (synthetic oneof _c) is not
C3_Witness ==
    /\ WalkDone
    /\ \E x \in 1..Len(log) :
          log[x].table = "oneof_fields"
          /\ log[x].row = [oneof_id |-> "pkg.Outer.choice", field_id |-> "pkg.Outer.a"]
    /\ \E x \in 1..Len(log) :
          log[x].table = "oneof_fields"
          /\ log[x].row = [oneof_id |-> "pkg.Outer.choice", field_id |-> "pkg.Outer.b"]
    /\ \E x \in 1..Len(log) : log[x].table = "fields" /\ log[x].row.id = "pkg.Outer.c"
    /\ \A x \in 1..Len(log) :
          log[x].table = "oneof_fields" => log[x].row.field_id # "pkg.Outer.c"


(* C4  Nesting context.  The Message, Enum and Extension rows queued by    *)
(* the walk carry, row for row, the path of the file that declares the     *)
(* entity (its ParentFile) at every depth; the parent_message of a Message *)
(* or Enum row is the full name of the message that immediately encloses   *)
(* it and nil at top level; the message of a Field row is the full name of *)
(* the message that declares the field.                                    *)
C4_NestingContext ==
    WalkDone =>
        LET ms == BatchMessages(files)
            es == BatchEnums(files)
            xs == BatchExtensions(files)
            fs == BatchFields(files)
            mrows == RowsOf("messages")
            erows == RowsOf("enums")
            xrows == RowsOf("extensions")
            frows == RowsOf("fields")
        IN /\ Len(mrows) = Len(ms) /\ Len(erows) = Len(es)
           /\ Len(xrows) = Len(xs) /\ Len(frows) = Len(fs)
           /\ \A k \in 1..Len(ms) :
                Count(mrows, LAMBDA e : e.row.full_name = ms[k].fullName
                                        /\ e.row.file = ms[k].file
                                        /\ e.row.parent_message = ms[k].parent)
                  = Count(ms, LAMBDA m : m.fullName = ms[k].fullName
                                         /\ m.file = ms[k].file /\ m.parent = ms[k].parent)
           /\ \A k \in 1..Len(es) :
                Count(erows, LAMBDA e : e.row.full_name = es[k].fullName
                                        /\ e.row.file = es[k].file
                                        /\ e.row.parent_message = es[k].parent)
                  = Count(es, LAMBDA m : m.fullName = es[k].fullName
                                         /\ m.file = es[k].file /\ m.parent = es[k].parent)
           /\ \A k \in 1..Len(xs) :
                Count(xrows, LAMBDA e : e.row.full_name = xs[k].fullName
                                        /\ e.row.file = xs[k].file)
                  = Count(xs, LAMBDA m : m.fullName = xs[k].fullName /\ m.file = xs[k].file)
           /\ \A k \in 1..Len(fs) :
                Count(frows, LAMBDA e : e.row.name = fs[k].name
                                        /\ e.row.message = fs[k].message)
                  = Count(fs, LAMBDA f : f.name = fs[k].name /\ f.message = fs[k].message)

\* Outer > Inner > Deep of a.proto: Deep's row, its nested enum and nested
\* extension, Inner's field x, and the top-level Outer
C4_Witness ==
    /\ WalkDone
    /\ \E x \in 1..Len(log) :
          /\ log[x].table = "messages"
          /\ log[x].row.full_name = "pkg.Outer.Inner.Deep"
          /\ log[x].row.parent_message = "pkg.Outer.Inner"
          /\ log[x].row.file = "a.proto"
    /\ \E x \in 1..Len(log) :
          /\ log[x].table = "messages"
          /\ log[x].row.full_name = "pkg.Outer"
          /\ log[x].row.parent_message = Nil
    /\ \E x \in 1..Len(log) :
          /\ log[x].table = "enums"
          /\ log[x].row.full_name = "pkg.Outer.Inner.Deep.Mode"
          /\ log[x].row.parent_message = "pkg.Outer.Inner.Deep"
          /\ log[x].row.file = "a.proto"
    /\ \E x \in 1..Len(log) :
          /\ log[x].table = "extensions"
          /\ log[x].row.full_name = "pkg.Outer.Inner.Deep.level"
          /\ log[x].row.file = "a.proto"
    /\ \E x \in 1..Len(log) :
          /\ log[x].table = "fields"
          /\ log[x].row.name = "x"
          /\ log[x].row.message = "pkg.Outer.Inner"


(* C7  Dependency rows.  The Dependency rows queued by the walk are, in    *)
(* order, one row per import of each file of the batch in import order:    *)
(* file is the importing file's path, dependency the imported path, and    *)
(* is_public / is_weak are that import's flags.                            *)
C7_DependencyRows ==
    WalkDone =>
        LET rows == RowsOf("dependencies")
            imports == Concat([i \in 1..Len(files) |->
                          [k \in 1..Len(Decl(files[i]).imports) |->
                              [importer |-> files[i], imp |-> Decl(files[i]).imports[k]]]])
        IN /\ Len(rows) = Len(imports)
           /\ \A j \in 1..Len(rows) :
                /\ rows[j].row.file = imports[j].importer
                /\ rows[j].row.dependency = imports[j].imp.path
                /\ rows[j].row.is_public = imports[j].imp.isPublic
                /\ rows[j].row.is_weak = imports[j].imp.isWeak

\* a.proto imports dep1.proto publicly and dep2.proto weakly
C7_Witness ==
    /\ WalkDone
    /\ \E x \in 1..Len(log) : \E y \in 1..Len(log) :
          /\ x < y
          /\ log[x].table = "dependencies" /\ log[y].table = "dependencies"
          /\ log[x].row = [file |-> "a.proto", dependency |-> "dep1.proto",
                           is_public |-> TRUE, is_weak |-> FALSE]
          /\ log[y].row = [file |-> "a.proto", dependency |-> "dep2.proto",
                           is_public |-> FALSE, is_weak |-> TRUE]

(* C8  Idempotent keying.  A successful LoadFiles on a fresh store leaves  *)
(* in every table a row set that is a function of the batch alone, and the *)
(* same row set, with the same keys, as the batch with every list of       *)
(* siblings (files, imports, messages, oneofs, fields, enums, values,      *)
(* services, methods, extensions) declared in the opposite order.          *)
ReverseEnumDecl(e) == [e EXCEPT !.values = Reverse(@)]

RECURSIVE ReverseMessageDecl(_)
ReverseMessageDecl(m) ==
    [m EXCEPT !.oneofs = Reverse(@),
              !.fields = Reverse(@),
              !.messages = Reverse([i \in 1..Len(m.messages) |-> ReverseMessageDecl(m.messages[i])]),
              !.enums = Reverse([i \in 1..Len(m.enums) |-> ReverseEnumDecl(m.enums[i])]),
              !.extensions = Reverse(@)]

ReverseFileDecl(f) ==
    [f EXCEPT !.imports = Reverse(@),
              !.messages = Reverse([i \in 1..Len(f.messages) |-> ReverseMessageDecl(f.messages[i])]),
              !.enums = Reverse([i \in 1..Len(f.enums) |-> ReverseEnumDecl(f.enums[i])]),
              !.services = Reverse([i \in 1..Len(f.services) |->
                                [f.services[i] EXCEPT !.methods = Reverse(@)]]),
              !.extensions = Reverse(@)]

ReversedWalk(batch) ==
    Concat(Reverse([i \in 1..Len(batch) |-> loadFile(LinkFile(ReverseFileDecl(Decl(batch[i]))))]))

FreshStore == \A t \in TableSet : store0[t] = {}

C8_IdempotentKeying ==
    (pc = "done" /\ result = "ok" /\ Len(files) > 0 /\ FreshStore) =>
        LET other == ReversedWalk(files)
        IN \A t \in TableSet :
              /\ store[t] = {other[i].row : i \in {i \in 1..Len(other) : other[i].table = t}}
              /\ {PrimaryKey(t, r) : r \in store[t]}
                   = {PrimaryKey(t, other[i].row) : i \in {i \in 1..Len(other) : other[i].table = t}}

\* a.proto and c.proto are loaded into a fresh store
C8_Witness ==
    /\ pc = "done" /\ result = "ok" /\ FreshStore
    /\ files = <<"a.proto", "c.proto">>
    /\ \E r \in store["oneofs"] : r.id = "pkg.Outer.choice"
    /\ \E r \in store["oneof_fields"] : r.oneof_id = "pkg.Outer.choice"
    /\ \E r \in store["fields"] : r.id = "M.label"

(* C9  Empty batch.  LoadFiles on an empty sequence returns success with   *)
(* no appender opened, no row queued and no flush, and the store is what   *)
(* it was before the call.                                                 *)
C9_EmptyBatch ==
    (pc = "done" /\ calls > 0 /\ Len(files) = 0) =>
        /\ result = "ok"
        /\ \A t \in TableSet : appender[t] = "nil" /\ pending[t] = <<>>
        /\ log = <<>>
        /\ flushed = <<>>
        /\ store = store0

\* the empty batch follows a load that left rows in the store
C9_Witness ==
    /\ pc = "done" /\ Len(files) = 0 /\ calls = 2
    /\ result = "ok"
    /\ store["files"] # {}

(* C10  Success only after every row and every flush.  When LoadFiles on a *)
(* non-empty batch returns success, every row of the walk was accepted by  *)
(* its appender, each of the eleven appenders was flushed successfully by  *)
(* Flush after the last row was queued, and every row is in the store; and *)
(* when the flush of an appender failed, LoadFiles returns an error.       *)
C10_SuccessOnlyAfterFlush ==
    /\ (result = "ok" /\ Len(files) > 0) =>
          /\ Len(log) = Len(walk)
          /\ \A j \in 1..Len(walk) : log[j] = walk[j] /\ walk[j].row \in store[walk[j].table]
          /\ \A t \in TableSet : \E i \in 1..Len(flushed) :
                /\ flushed[i].table = t /\ flushed[i].via = "Flush"
                /\ flushed[i].ok /\ flushed[i].queued = Len(walk)
    /\ (pc \in {"defer", "done"}
        /\ \E i \in 1..Len(flushed) : flushed[i].via = "Flush" /\ ~flushed[i].ok) =>
          result \notin {"ok", Nil}

\* after one successful load, the flush of an appender fails in the next
C10_Witness ==
    /\ pc = "done" /\ calls = 2
    /\ store0["files"] # {}
    /\ \E i \in 1..Len(flushed) : flushed[i].via = "Flush" /\ ~flushed[i].ok
    /\ result \notin {"ok", Nil}


(* C11  Flush ordering.  Whenever an appender that holds rows of the call  *)
(* is flushed, by Flush or by the Close that releases it, the last row of  *)
(* the last file of the batch had been queued before: the flush happened   *)
(* with all the rows of the walk queued.                                   *)
C11_FlushOrdering ==
    \A i \in 1..Len(flushed) :
        Len(RowsOf(flushed[i].table)) > 0 => flushed[i].queued = Len(walk)

\* an AppendRow of the running call failed: LoadFiles left its loop, or
\* has returned, with rows of the walk not queued
RowFailure ==
    /\ pc \in {"defer", "done"}
    /\ Len(files) > 0
    /\ appender[Tables[Len(Tables)]] # "nil"
    /\ Len(log) < Len(walk)

(* C12  Abort on first error.  After the first AppendRow that fails, the   *)
(* rows queued are exactly the rows of the walk before the failing one     *)
(* (no further row is queued, no later file is visited), Flush has not     *)
(* been called on any appender, and LoadFiles returns the error of that    *)
(* row emission.                                                           *)
C12_AbortOnFirstError ==
    RowFailure =>
        /\ pos = Len(log)
        /\ log = SubSeq(walk, 1, pos)
        /\ pc = "defer" =>
              \A t \in TableSet :
                  pending[t] = [j \in 1..Len(RowsOf(t)) |-> RowsOf(t)[j].row]
        /\ \A i \in 1..Len(flushed) : flushed[i].via # "Flush"
        /\ result = walk[pos + 1].err

\* the Message row of pkg.Outer fails in a.proto; c.proto is never visited
C12_Witness ==
    /\ pc = "done" /\ files = <<"a.proto", "c.proto">>
    /\ RowFailure
    /\ Len(log) >= 2
    /\ result = "failed to append message pkg.Outer"
    /\ \A j \in 1..Len(log) : log[j].table \in {"files", "dependencies"}

\* the text sub occurs in the text s
Contains(s, sub) ==
    \E i \in 1..(Len(s) - Len(sub) + 1) : SubSeq(s, i, i + Len(sub) - 1) = sub

\* the word that names the kind of entity a table holds
KindWord(table) ==
    CASE table = "files" -> "file"
      [] table = "dependencies" -> "dependency"
      [] table = "messages" -> "message"
      [] table = "oneofs" -> "oneof"
      [] table = "fields" -> "field"
      [] table = "oneof_fields" -> "oneof"
      [] table = "enums" -> "enum"
      [] table = "enum_values" -> "enum value"
      [] table = "services" -> "service"
      [] table = "methods" -> "method"
      [] table = "extensions" -> "extension"

(* C13  Error context.  When the emission of a row has failed, the error   *)
(* LoadFiles returns names the kind of the entity (the word for its row    *)
(* kind) and the identifier of the entity being emitted (a column of the   *)
(* row's key), whichever of the eleven row kinds it is.                    *)
C13_ErrorContext ==
    (RowFailure /\ pc = "done") =>
        LET e == walk[Len(log) + 1]
            key == PrimaryKey(e.table, e.row)
        IN /\ Contains(result, KindWord(e.table))
           /\ \E i \in 1..Len(key) : Contains(result, key[i])

(* C14  Handle release.  When LoadFiles has returned from a call that      *)
(* opened an appender, no appender is left open: the appenders before the  *)
(* first one that failed to open (all eleven when none failed) are closed, *)
(* and the one that failed to open and those after it, never opened, are   *)
(* not closed.                                                             *)
C14_HandleRelease ==
    (pc = "done" /\ \E t \in TableSet : appender[t] # "nil") =>
        \E k \in 1..Len(Tables) :
            /\ \A i \in 1..Len(Tables) :
                  appender[Tables[i]] = (IF i <= k THEN "closed" ELSE "nil")
            /\ k < Len(Tables) => result = "failed to create " \o Tables[k + 1] \o " appender"

\* the fourth appender could not be opened: three were opened and closed
C14_Witness ==
    /\ pc = "done"
    /\ result = "failed to create enums appender"
    /\ appender["files"] = "closed" /\ appender["fields"] = "closed"
    /\ appender["enums"] = "nil" /\ appender["dependencies"] = "nil"

(* C15  Batch-scoped resolver.  The resolver a LoadFiles call builds       *)
(* covers every file of its batch: every extension declared in any file of *)
(* the batch, at any depth, is found by it.                                *)
C15_BatchScopedResolver ==
    (pc = "load" /\ pos = 0) =>
        LET xs == BatchExtensions(files)
        IN \A i \in 1..Len(xs) : FindExtensionByName(Resolver(files), xs[i].fullName)

(* C16  Schema creation is idempotent.  A run of createSchema on a         *)
(* database that already holds the eleven tables succeeds and leaves the   *)
(* tables and their rows as they were.                                     *)
C16_SchemaIdempotent ==
    [][(tables = TableSet /\ schemaErr' # schemaErr) =>
          (schemaErr' = "ok" /\ tables' = tables /\ store' = store)]_vars

\* the keys of the rows of a table queued by the running call (their first
\* key column)
KeysQueued(table) == {PrimaryKey(table, RowsOf(table)[j].row)[1] : j \in 1..Len(RowsOf(table))}

\* LoadFiles has returned success for a batch with files
Loaded == pc = "done" /\ result = "ok" /\ Len(files) > 0

(* C17  Referential integrity within a batch.  After LoadFiles succeeds,   *)
(* among the rows of the batch: every Field row's and every Oneof row's    *)
(* message is the key of a Message row, every Enum Value row's enum the    *)
(* key of an Enum row, every Method row's service the key of a Service     *)
(* row, every junction row's oneof_id and field_id the keys of a Oneof row *)
(* and of a Field row, and every parent_message that is not null the key   *)
(* of a Message row; and all these rows are in the store.                  *)
C17_ReferentialIntegrity ==
    Loaded =>
        LET Refs(table, Col(_), target) ==
                \A j \in 1..Len(RowsOf(table)) :
                    /\ Col(RowsOf(table)[j].row) \in KeysQueued(target)
                    /\ \E r \in store[target] : PrimaryKey(target, r)[1] = Col(RowsOf(table)[j].row)
            Parents(table) ==
                \A j \in 1..Len(RowsOf(table)) :
                    RowsOf(table)[j].row.parent_message # Nil =>
                        RowsOf(table)[j].row.parent_message \in KeysQueued("messages")
        IN /\ Refs("fields", LAMBDA r : r.message, "messages")
           /\ Refs("oneofs", LAMBDA r : r.message, "messages")
           /\ Refs("enum_values", LAMBDA r : r.enum, "enums")
           /\ Refs("methods", LAMBDA r : r.service, "services")
           /\ Refs("oneof_fields", LAMBDA r : r.oneof_id, "oneofs")
           /\ Refs("oneof_fields", LAMBDA r : r.field_id, "fields")
           /\ Parents("messages")
           /\ Parents("enums")

\* a.proto is loaded: nested messages and enums, a oneof with linked
\* fields, a service with a method
C17_Witness ==
    /\ Loaded /\ files = <<"a.proto">>
    /\ \E j \in 1..Len(log) : log[j].table = "oneof_fields"
    /\ \E j \in 1..Len(log) : log[j].table = "methods"
    /\ \E j \in 1..Len(log) :
          log[j].table = "enums" /\ log[j].row.parent_message = "pkg.Outer.Inner.Deep"
    /\ \E r \in store["enum_values"] : r.enum = "pkg.Outer.Inner.Deep.Mode"

\* the elements of a sequence of texts are pairwise distinct
Distinct(names) == \A i, j \in 1..Len(names) : i # j => names[i] # names[j]

\* the local names of the members of a parent are distinct and have no '.'
LocalNames(members) ==
    /\ Distinct([i \in 1..Len(members) |-> members[i].name])
    /\ \A i \in 1..Len(members) : ~Contains(members[i].name, ".")

\* the descriptors of a batch are well-formed: the files are distinct, the
\* fully-qualified names are unique, the local names within a parent are
\* unique and contain no '.'
WellFormed(batch) ==
    LET ms == BatchMessages(batch)
        es == BatchEnums(batch)
        xs == BatchExtensions(batch)
        svs == Concat([i \in 1..Len(batch) |-> File(batch[i]).services])
    IN /\ Distinct(batch)
       /\ Distinct([k \in 1..Len(ms) |-> ms[k].fullName]
                   \o [k \in 1..Len(es) |-> es[k].fullName]
                   \o [k \in 1..Len(svs) |-> svs[k].fullName]
                   \o [k \in 1..Len(xs) |-> xs[k].fullName])
       /\ \A k \in 1..Len(ms) : LocalNames(ms[k].fields) /\ LocalNames(ms[k].oneofs)
       /\ \A k \in 1..Len(es) : LocalNames(es[k].values)
       /\ \A k \in 1..Len(svs) : LocalNames(svs[k].methods)

\* the rows queued for a table whose key is parent id + "." + local name,
\* with the column that names the parent
Composite == <<"fields", "oneofs", "enum_values", "methods">>

ParentOf(table, row) ==
    CASE table \in {"fields", "oneofs"} -> row.message
      [] table = "enum_values" -> row.enum
      [] table = "methods" -> row.service

(* C18  Key uniqueness.  For a batch of well-formed descriptors the keys   *)
(* of the rows queued for each table are pairwise distinct; the key of a   *)
(* field, oneof, enum value or method is its parent's id, '.', and its     *)
(* local name, and two such keys are equal only when both the parent ids   *)
(* and the local names are equal.                                          *)
C18_KeyUniqueness ==
    (WalkDone /\ WellFormed(files)) =>
        /\ \A t \in TableSet :
              \A i, j \in 1..Len(RowsOf(t)) :
                  i # j => PrimaryKey(t, RowsOf(t)[i].row) # PrimaryKey(t, RowsOf(t)[j].row)
        /\ \A a, b \in 1..Len(Composite) :
              \A i \in 1..Len(RowsOf(Composite[a])) : \A j \in 1..Len(RowsOf(Composite[b])) :
                  LET r == RowsOf(Composite[a])[i].row
                      q == RowsOf(Composite[b])[j].row
                      key(t, row) == PrimaryKey(t, row)[1]
                  IN /\ key(Composite[a], r) = ParentOf(Composite[a], r) \o "." \o r.name
                     /\ key(Composite[a], r) = key(Composite[b], q) =>
                           /\ ParentOf(Composite[a], r) = ParentOf(Composite[b], q)
                           /\ r.name = q.name

\* a.proto and c.proto are walked: two messages have a field named a
C18_Witness ==
    /\ WalkDone /\ files = <<"a.proto", "c.proto">> /\ WellFormed(files)
    /\ \E i, j \in 1..Len(log) :
          /\ log[i].table = "fields" /\ log[j].table = "fields"
          /\ log[i].row.name = "a" /\ log[j].row.name = "a"
          /\ log[i].row.id = "pkg.Outer.a" /\ log[j].row.id = "pkg.Outer.Inner.Deep.a"

\* the text s begins with the text pre
StartsWith(s, pre) == Len(pre) <= Len(s) /\ SubSeq(s, 1, Len(pre)) = pre

\* a queued row is the row of a file or of a top-level element of a file
\* (a top-level extension is named by its file's package and its own name)
TopLevel(e) ==
    \/ e.table \in {"files", "dependencies", "services"}
    \/ e.table \in {"messages", "enums"} /\ e.row.parent_message = Nil
    \/ /\ e.table = "extensions"
       /\ e.row.full_name = QName(Decl(e.row.file).pkg, e.row.name)

\* the table and key of a queued row
Entity(e) == <<e.table>> \o PrimaryKey(e.table, e.row)

\* the files of a batch and their top-level elements, as declared: per file
\* the file, its imports, its messages, its enums, its services and its
\* extensions
Declared(batch) ==
    Concat([i \in 1..Len(batch) |->
        LET f == File(batch[i])
        IN <<<<"files", f.path>>>>
           \o [k \in 1..Len(f.imports) |-> <<"dependencies", f.path, f.imports[k].path>>]
           \o [k \in 1..Len(f.messages) |-> <<"messages", f.messages[k].fullName>>]
           \o [k \in 1..Len(f.enums) |-> <<"enums", f.enums[k].fullName>>]
           \o [k \in 1..Len(f.services) |-> <<"services", f.services[k].fullName>>]
           \o [k \in 1..Len(f.extensions) |-> <<"extensions", f.extensions[k].fullName>>]])

\* the row at n is a row of the top-level element whose row is at h
MemberOf(n, h) ==
    LET own == log[h].row.full_name
        key == PrimaryKey(log[n].table, log[n].row)
    IN CASE log[h].table = "messages" ->
                /\ log[n].table \in {"oneofs", "fields", "oneof_fields", "messages", "enums",
                                     "enum_values", "extensions"}
                /\ \A c \in 1..Len(key) : StartsWith(key[c], own \o ".")
         [] log[h].table = "enums" -> log[n].table = "enum_values" /\ log[n].row.enum = own
         [] log[h].table = "services" -> log[n].table = "methods" /\ log[n].row.service = own
         [] OTHER -> FALSE

(* C19  File-level emission order.  The rows of files and of top-level     *)
(* elements are queued in this order: file by file in input order, and for *)
(* each file the File row, its Dependency rows, its top-level messages,    *)
(* its top-level enums, its services, its top-level extensions, each group *)
(* in declaration order.  Every other row is queued after the row of the   *)
(* top-level element it belongs to and before the next such row, so all    *)
(* the rows of a file are queued before any row of the next file.          *)
C19_FileEmissionOrder ==
    WalkDone =>
        LET heads == SelectSeq(log, TopLevel)
        IN /\ [n \in 1..Len(heads) |-> Entity(heads[n])] = Declared(files)
           /\ \A n \in 1..Len(log) :
                 ~TopLevel(log[n]) =>
                     \E h \in 1..(n - 1) :
                         /\ TopLevel(log[h])
                         /\ \A m \in (h + 1)..n : ~TopLevel(log[m])
                         /\ MemberOf(n, h)

\* c.proto then a.proto: the rows of c.proto end with its extension, the
\* File row of a.proto follows, and the service of a.proto comes after its enum
C19_Witness ==
    /\ WalkDone /\ files = <<"c.proto", "a.proto">>
    /\ \E n \in 2..Len(log) :
          /\ log[n].table = "files" /\ log[n].row.name = "a.proto"
          /\ log[n - 1].table = "extensions" /\ log[n - 1].row.full_name = "m_ext"
          /\ \E j, k \in (n + 1)..Len(log) :
                /\ j < k
                /\ log[j].table = "enum_values" /\ log[j].row.enum = "pkg.Status"
                /\ log[k].table = "services"

\* the row at n is keyed under the name own: every column of its key
\* begins with own and a '.'
Under(n, own) ==
    LET key == PrimaryKey(log[n].table, log[n].row)
    IN \A c \in 1..Len(key) : StartsWith(key[c], own \o ".")

\* the last of the rows that follow the Message row at p and are keyed
\* under that message
LastUnder(p) ==
    CHOOSE n \in p..Len(log) :
        /\ \A m \in (p + 1)..n : Under(m, log[p].row.full_name)
        /\ n < Len(log) => ~Under(n + 1, log[p].row.full_name)

\* the part of the message whose row is at p that the row at n belongs to:
\* 1 its oneofs, 2 its fields (a junction row right after the row of its
\* field), 3 its nested messages, 4 its nested enums, 5 its nested
\* extensions; 0 when it belongs to none of them
Part(n, p) ==
    LET own == log[p].row.full_name
        e == log[n]
    IN CASE e.table = "oneofs" /\ e.row.message = own -> 1
         [] e.table = "fields" /\ e.row.message = own -> 2
         [] /\ e.table = "oneof_fields"
            /\ log[n - 1].table = "fields"
            /\ log[n - 1].row.message = own
            /\ log[n - 1].row.id = e.row.field_id -> 2
         [] \E q \in (p + 1)..n :
                /\ log[q].table = "messages" /\ log[q].row.parent_message = own
                /\ q = n \/ \A m \in (q + 1)..n : Under(m, log[q].row.full_name) -> 3
         [] e.table = "enums" /\ e.row.parent_message = own -> 4
         [] /\ e.table = "enum_values"
            /\ \E q \in (p + 1)..(n - 1) :
                  /\ log[q].table = "enums" /\ log[q].row.parent_message = own
                  /\ log[q].row.full_name = e.row.enum
                  /\ \A m \in (q + 1)..n : log[m].table = "enum_values" -> 4
         [] e.table = "extensions" /\ e.row.full_name = own \o "." \o e.row.name -> 5
         [] OTHER -> 0

\* the message a queued row names as the one it is a member of, or Nil
Owner(e) ==
    CASE e.table \in {"oneofs", "fields"} -> e.row.message
      [] e.table \in {"messages", "enums"} -> e.row.parent_message
      [] OTHER -> Nil

(* C20  Message-level emission order.  The rows that follow a Message row  *)
(* and belong to that message come in this order: all its Oneof rows, then *)
(* all its Field rows, each junction row immediately after the row of its  *)
(* field, then the rows of its nested messages, then of its nested enums,  *)
(* then of its nested extensions.  Every row of a member of a message, the *)
(* Message row of a nested message included, is queued after the Message   *)
(* row of that message, among the rows that belong to it.                  *)
C20_MessageEmissionOrder ==
    WalkDone =>
        /\ \A p \in 1..Len(log) :
              log[p].table = "messages" =>
                  \A n \in (p + 1)..LastUnder(p) :
                      /\ Part(n, p) >= 1
                      /\ n < LastUnder(p) => Part(n, p) <= Part(n + 1, p)
        /\ \A n \in 1..Len(log) :
              Owner(log[n]) # Nil =>
                  \E p \in 1..(n - 1) :
                      /\ log[p].table = "messages"
                      /\ log[p].row.full_name = Owner(log[n])
                      /\ n <= LastUnder(p)
        /\ \A n \in 1..Len(log) :
              log[n].table = "oneof_fields" =>
                  /\ n > 1
                  /\ log[n - 1].table = "fields" /\ log[n - 1].row.id = log[n].row.field_id

\* a.proto is walked: after the Message row of pkg.Outer come its two Oneof
\* rows, field a and its junction row, later the nested message Inner,
\* then the enum Color and last the extension tag
C20_Witness ==
    /\ WalkDone /\ files = <<"a.proto">>
    /\ \E p \in 1..Len(log) :
          /\ log[p].table = "messages" /\ log[p].row.full_name = "pkg.Outer"
          /\ log[p + 1].table = "oneofs" /\ log[p + 2].table = "oneofs"
          /\ log[p + 3].table = "fields" /\ log[p + 3].row.id = "pkg.Outer.a"
          /\ log[p + 4].table = "oneof_fields" /\ log[p + 4].row.field_id = "pkg.Outer.a"
          /\ \E q, r, x \in (p + 5)..LastUnder(p) :
                /\ q < r /\ r < x
                /\ log[q].table = "messages" /\ log[q].row.parent_message = "pkg.Outer"
                /\ log[r].table = "enums" /\ log[r].row.full_name = "pkg.Outer.Color"
                /\ log[x].table = "extensions" /\ log[x].row.full_name = "pkg.Outer.tag"
                /\ x = LastUnder(p)

-----------------------------------------------------------------------------
(* Claims about the encoder, checked under SpecOptions.                    *)

Extracted == optsOut.type # "unset"

NoFieldSet == optsIn.isNil \/ ~optsIn.valid \/ Len(optsIn.set) = 0

(* C5 as claimed  Metadata absence vs presence.  extractOptions returns    *)
(* nil exactly when the options value is nil, invalid or has no field set, *)
(* and otherwise a non-empty map with exactly one key per set field.       *)
C5_OneKeyPerSetField ==
    Extracted =>
        IF NoFieldSet THEN optsOut.type = "nil"
        ELSE /\ optsOut.type = "map"
             /\ DOMAIN optsOut.val # {}
             /\ Cardinality(DOMAIN optsOut.val) = Len(optsIn.set)

(* C5 as amended  extractOptions returns nil exactly when the options      *)
(* value is nil, invalid or has no field set, and otherwise a non-empty    *)
(* map whose keys are exactly the option names of the set fields (the full *)
(* name of an extension, the plain name of a standard option): one key per *)
(* distinct option name, so set fields with the same option name share a   *)
(* key.  It never returns an empty map.                                    *)
C5_AbsentOrNamedKeys ==
    Extracted =>
        IF NoFieldSet THEN optsOut.type = "nil"
        ELSE /\ optsOut.type = "map"
             /\ DOMAIN optsOut.val # {}
             /\ DOMAIN optsOut.val =
                  {IF optsIn.set[i].fd.isExtension THEN optsIn.set[i].fd.fullName
                   ELSE optsIn.set[i].fd.name : i \in 1..Len(optsIn.set)}
             /\ Cardinality(DOMAIN optsOut.val) <= Len(optsIn.set)

\* the standard option deprecated and a package-less extension named
\* deprecated are both set: two set fields, one key
C5_Witness ==
    /\ Extracted
    /\ Len(optsIn.set) = 2
    /\ optsOut.type = "map"
    /\ DOMAIN optsOut.val = {"deprecated"}

(* C6  Map option encoding.  A set map field is encoded as a mapping with  *)
(* exactly one entry per map entry; the key of an entry is the rendering   *)
(* of the map key as a string (decimal for an integer key, true / false    *)
(* for a boolean key, the key itself for a string key) and its value is    *)
(* the encoding of the map value under the map's value descriptor.         *)
(* {1: "a", 2: "b"} encodes to {"1": "a", "2": "b"}.                       *)
KeyText(kind, k) ==
    IF kind = "bool" THEN (IF k THEN "true" ELSE "false")
    ELSE IF kind = "string" THEN k
    ELSE ToString(k)

C6_MapOptionEncoding ==
    Extracted =>
        \A i \in 1..Len(optsIn.set) :
            LET fd == optsIn.set[i].fd
                v == optsIn.set[i].v
            IN fd.isMap =>
                LET enc == optsOut.val[fd.fullName]
                IN /\ enc.type = "map"
                   /\ Cardinality(DOMAIN enc.val) = Cardinality(DOMAIN v)
                   /\ \A k \in DOMAIN v :
                        /\ KeyText(fd.mapKey.kind, k) \in DOMAIN enc.val
                        /\ enc.val[KeyText(fd.mapKey.kind, k)] = scalarToInterface(fd.mapValue, v[k])
                   /\ (fd.fullName = "pkg.labels" /\ DOMAIN v = {1, 2}
                       /\ v[1] = "a" /\ v[2] = "b") =>
                         enc.val = ("1" :> [type |-> "string", val |-> "a"]
                                    @@ "2" :> [type |-> "string", val |-> "b"])

\* labels = {1: "a", 2: "b"} and flags = {true: 1, false: 0} are both set
C6_Witness ==
    /\ Extracted
    /\ Len(optsIn.set) = 2
    /\ optsIn.set[1].fd.fullName = "pkg.labels" /\ DOMAIN optsIn.set[1].v = {1, 2}
    /\ optsIn.set[2].fd.fullName = "pkg.flags" /\ DOMAIN optsIn.set[2].v = BOOLEAN
    /\ DOMAIN optsOut.val["pkg.labels"].val = {"1", "2"}
    /\ DOMAIN optsOut.val["pkg.flags"].val = {"true", "false"}

\* enc is the encoding of the value v of the field fd in which every enum
\* number, at any depth, is encoded by its name when the enum declares the
\* number and by the number itself otherwise
RECURSIVE EnumsByName(_, _, _)
RECURSIVE EnumsByNameIn(_, _, _)

EnumsByNameIn(fd, v, enc) ==
    CASE fd.kind = "enum" ->
            IF \E n \in DOMAIN fd.enumValues : n = v
            THEN enc.type = "string" /\ enc.val = fd.enumValues[v]
            ELSE enc.type = "int32" /\ enc.val = v
      [] fd.kind \in {"message", "group"} ->
            IF ~v.valid THEN enc.type = "nilmap"
            ELSE /\ enc.type = "map"
                 /\ \A i \in 1..Len(v.set) :
                       /\ OptionName(v.set[i].fd) \in DOMAIN enc.val
                       /\ EnumsByName(v.set[i].fd, v.set[i].v,
                                      enc.val[OptionName(v.set[i].fd)])
      [] OTHER -> enc.type \in {"bool", "int32", "int64", "uint32", "uint64", "float32",
                                "float64", "string", "bytes"}

EnumsByName(fd, v, enc) ==
    IF fd.isList
    THEN /\ enc.type = "list" /\ Len(enc.val) = Len(v)
         /\ \A i \in 1..Len(v) : EnumsByNameIn(fd, v[i], enc.val[i])
    ELSE IF fd.isMap
    THEN /\ enc.type = "map"
         /\ \A k \in DOMAIN v :
               /\ KeyText(fd.mapKey.kind, k) \in DOMAIN enc.val
               /\ EnumsByNameIn(fd.mapValue, v[k], enc.val[KeyText(fd.mapKey.kind, k)])
    ELSE EnumsByNameIn(fd, v, enc)

(* C21  Unresolvable metadata is recovered locally.  Encoding an options   *)
(* message always yields a value, nil or a map, never an error; in it an   *)
(* enum number is encoded as the name of the value when the enum declares  *)
(* the number and as the number otherwise, whether the enum field is a     *)
(* scalar, an element of a list, a value of a map or a field of a nested   *)
(* message.                                                                *)
C21_EnumFallback ==
    Extracted =>
        /\ optsOut.type \in {"nil", "map"}
        /\ optsOut.type = "nil" <=> NoFieldSet
        /\ \A i \in 1..Len(optsIn.set) :
              (\A j \in (i + 1)..Len(optsIn.set) :
                   OptionName(optsIn.set[j].fd) # OptionName(optsIn.set[i].fd)) =>
                  EnumsByName(optsIn.set[i].fd, optsIn.set[i].v,
                              optsOut.val[OptionName(optsIn.set[i].fd)])

\* a list of levels with an undeclared number and a nested message whose
\* enum field holds an undeclared number are encoded
C21_Witness ==
    /\ Extracted
    /\ Len(optsIn.set) = 2
    /\ optsIn.set[1].fd.fullName = "pkg.levels" /\ optsIn.set[1].v = <<0, 5>>
    /\ optsIn.set[2].fd.fullName = "pkg.rule"
    /\ optsIn.set[2].v.set[1].fd.name = "grade" /\ optsIn.set[2].v.set[1].v = 7
    /\ optsOut.val["pkg.levels"].val[1] = [type |-> "string", val |-> "LOW"]
    /\ optsOut.val["pkg.levels"].val[2] = [type |-> "int32", val |-> 5]
    /\ optsOut.val["pkg.rule"].val["grade"] = [type |-> "int32", val |-> 7]

-----------------------------------------------------------------------------
(* The command line: main runs one query (-q) or the interactive loop, and *)
(* executeQuery writes the answer of the database to standard output.      *)

MaxLines == 3

\* column values as database/sql scans them into interface{}
NullVal == [kind |-> "null", text |-> ""]
IntVal(n) == [kind |-> "int", text |-> Itoa(n)]
StrVal(s) == [kind |-> "string", text |-> s]

RECURSIVE Join(_, _)
\* strings.Join
Join(ss, sep) ==
    IF Len(ss) = 0 THEN ""
    ELSE IF Len(ss) = 1 THEN ss[1]
    ELSE ss[1] \o sep \o Join(Tail(ss), sep)

RECURSIVE Repeat(_, _)
\* strings.Repeat
Repeat(s, n) == IF n <= 0 THEN "" ELSE s \o Repeat(s, n - 1)

RECURSIVE TrimSpace(_)
\* strings.TrimSpace
TrimSpace(s) ==
    IF Len(s) = 0 THEN s
    ELSE IF SubSeq(s, 1, 1) \in {" ", "\n", "\t", "\r"}
    THEN TrimSpace(SubSeq(s, 2, Len(s)))
    ELSE IF SubSeq(s, Len(s), Len(s)) \in {" ", "\n", "\t", "\r"}
    THEN TrimSpace(SubSeq(s, 1, Len(s) - 1))
    ELSE s

RECURSIVE ToLower(_)
\* strings.ToLower
ToLower(s) ==
    IF Len(s) = 0 THEN s
    ELSE LET UpperCase == "ABCDEFGHIJKLMNOPQRSTUVWXYZ"
             LowerCase == "abcdefghijklmnopqrstuvwxyz"
             c == SubSeq(s, 1, 1)
             at == {i \in 1..Len(UpperCase) : SubSeq(UpperCase, i, i) = c}
         IN (IF at = {} THEN c
             ELSE LET i == CHOOSE i \in at : TRUE IN SubSeq(LowerCase, i, i))
            \o ToLower(SubSeq(s, 2, Len(s)))

\* strings.TrimPrefix
TrimPrefix(s, pre) ==
    IF StartsWith(s, pre) THEN SubSeq(s, Len(pre) + 1, Len(s)) ELSE s

\* formatValue
formatValue(val) == IF val.kind = "null" THEN "NULL" ELSE val.text

\* printTableRow: each value left-justified in its column width plus two
printTableRow(values, widths) ==
    Join([i \in 1..Len(values) |->
             values[i] \o Repeat(" ", widths[i] + 2 - Len(values[i]))], "") \o "\n"

\* printTableSeparator
printTableSeparator(widths) ==
    Join([i \in 1..Len(widths) |-> Repeat("-", widths[i] + 2)], "") \o "\n"

Max(S) == CHOOSE x \in S : \A y \in S : y <= x

\* outputTable
outputTable(cols, rows) ==
    LET data == [r \in 1..Len(rows) |-> [i \in 1..Len(cols) |-> formatValue(rows[r][i])]]
        colWidths == [i \in 1..Len(cols) |->
                         Max({Len(cols[i])} \cup {Len(data[r][i]) : r \in 1..Len(rows)})]
    IN printTableRow(cols, colWidths)
       \o printTableSeparator(colWidths)
       \o Join([r \in 1..Len(data) |-> printTableRow(data[r], colWidths)], "")
       \o "(" \o Itoa(Len(data)) \o " rows)\n"

\* encoding/json of one column value
jsonValue(val) ==
    CASE val.kind = "null" -> "null"
      [] val.kind = "int" -> val.text
      [] OTHER -> "\"" \o val.text \o "\""

\* row[col] = values[i] for every column: a later column of the same name
\* overwrites an earlier one
rowMap(cols, values) ==
    [c \in Range(cols) |-> values[Max({i \in 1..Len(cols) : cols[i] = c})]]

\* encoding/json of a row map at indent level one, indent "  ": the keys of
\* a map are written sorted.  KeyOrder is the sorted order of the column
\* names of the answers that have more than one column.
jsonObject(row) ==
    LET KeyOrder == <<"a", "b", "name", "package">>
        keys == IF Cardinality(DOMAIN row) = 1
                THEN <<CHOOSE k \in DOMAIN row : TRUE>>
                ELSE SelectSeq(KeyOrder, LAMBDA k : k \in DOMAIN row)
    IN IF Len(keys) = 0 THEN "  {}"
       ELSE "  {\n"
            \o Join([i \in 1..Len(keys) |->
                        "    \"" \o keys[i] \o "\": " \o jsonValue(row[keys[i]])], ",\n")
            \o "\n  }"

\* outputJSON: results is a nil slice until the first row is appended, and
\* encoding/json writes a nil slice as null
outputJSON(cols, rows) ==
    LET results == [r \in 1..Len(rows) |-> rowMap(cols, rows[r])]
    IN IF Len(results) = 0 THEN "null\n"
       ELSE "[\n" \o Join([r \in 1..Len(results) |-> jsonObject(results[r])], ",\n")
            \o "\n]\n"

RECURSIVE DoubleQuotes(_)
\* encoding/csv: a quote inside a quoted field is written twice
DoubleQuotes(s) ==
    IF Len(s) = 0 THEN s
    ELSE (IF SubSeq(s, 1, 1) = "\"" THEN "\"\"" ELSE SubSeq(s, 1, 1))
         \o DoubleQuotes(SubSeq(s, 2, Len(s)))

\* encoding/csv: Writer.fieldNeedsQuotes and the quoting of a field
csvField(f) ==
    IF f # "" /\ (\/ f = "\\."
                  \/ Contains(f, ",") \/ Contains(f, "\"")
                  \/ Contains(f, "\n") \/ Contains(f, "\r")
                  \/ StartsWith(f, " "))
    THEN "\"" \o DoubleQuotes(f) \o "\""
    ELSE f

\* csv.Writer.Write
csvRecord(fields) == Join([i \in 1..Len(fields) |-> csvField(fields[i])], ",") \o "\n"

\* outputCSV
outputCSV(cols, rows) ==
    csvRecord(cols)
    \o Join([r \in 1..Len(rows) |->
                csvRecord([i \in 1..Len(cols) |-> formatValue(rows[r][i])])], "")

\* the queries and the -f values the command line is run with here
SelectOne == "SELECT 1 as test"
SelectTwo == "SELECT 2 AS b, 1 AS a"
SelectFiles == "SELECT name, package FROM files"
TablesQuery == "SELECT name FROM sqlite_master WHERE type='table' ORDER BY name"
FlagQueries == {"", SelectOne, "SELECT 1", SelectTwo, SelectFiles,
                "SELECT name FROM sqlite_master WHERE type='table'", "SELEC"}
FlagFormats == {"table", "json", "csv", "yaml"}

\* the lines typed at the prompt
InputLines == {"", ".quit", ".help", ".tables", ".format json", ".format csv",
               ".format table", ".format xml", " .format  json ", ".FORMAT json",
               SelectOne, SelectFiles}

\* db.Query and the rows it yields: the possible answers of the database to
\* a query.  Rows without ORDER BY come in any order.
Query(q) ==
    LET Column(v) == IF v = Nil THEN NullVal ELSE StrVal(v)
        \* the table names in the order ORDER BY name gives them
        TableNames == <<"dependencies", "enum_values", "enums", "extensions", "fields",
                        "files", "messages", "methods", "oneof_fields", "oneofs",
                        "services">>
        listed(names) ==
            [err |-> Nil, cols |-> <<"name">>,
             rows |-> LET there == SelectSeq(names, LAMBDA t : t \in tables)
                      IN [i \in 1..Len(there) |-> <<StrVal(there[i])>>]]
        \* keywords are matched without regard to case; an alias is an
        \* identifier and names the column as it is written
        lower == ToLower(q)
        alias == IF StartsWith(lower, "select 1 as ")
                 THEN SubSeq(q, Len("select 1 as ") + 1, Len(q)) ELSE ""
        letters == {SubSeq("abcdefghijklmnopqrstuvwxyz_", i, i) : i \in 1..27}
        digits == {Digit(d) : d \in 0..9}
        identifier(s) ==
            /\ Len(s) > 0
            /\ ToLower(SubSeq(s, 1, 1)) \in letters
            /\ \A i \in 2..Len(s) : ToLower(SubSeq(s, i, i)) \in letters \cup digits
    IN
    CASE lower = "select 1" ->
           {[err |-> Nil, cols |-> <<"1">>, rows |-> << <<IntVal(1)>> >>]}
      [] identifier(alias) ->
           {[err |-> Nil, cols |-> <<alias>>, rows |-> << <<IntVal(1)>> >>]}
      [] q = SelectTwo ->
           {[err |-> Nil, cols |-> <<"b", "a">>, rows |-> << <<IntVal(2), IntVal(1)>> >>]}
      [] q = SelectFiles ->
           {[err |-> Nil, cols |-> <<"name", "package">>,
             rows |-> [i \in 1..Len(order) |->
                          <<Column(order[i].name), Column(order[i].package)>>]] :
            order \in {o \in SeqsUpTo(store["files"], Cardinality(store["files"])) :
                          Len(o) = Cardinality(store["files"]) /\ Range(o) = store["files"]}}
      [] q = TablesQuery -> {listed(TableNames)}
      [] q = "SELECT name FROM sqlite_master WHERE type='table'" ->
           \* no ORDER BY: the engine picks the order; of the orders it may
           \* pick, the order of creation, its reverse and the order of the names
           {listed(Tables), listed(Reverse(Tables)), listed(TableNames)}
      [] OTHER ->
           {[err |-> "Parser Error: syntax error", cols |-> <<>>, rows |-> <<>>]}

\* executeQuery, given the answer of db.Query: what it returns, the output
\* function it chose and the text written to standard output
executeQuery(answer, format) ==
    IF answer.err # Nil THEN [err |-> answer.err, via |-> Nil, text |-> ""]
    ELSE CASE format = "json" ->
                [err |-> Nil, via |-> "outputJSON",
                 text |-> outputJSON(answer.cols, answer.rows)]
           [] format = "csv" ->
                [err |-> Nil, via |-> "outputCSV",
                 text |-> outputCSV(answer.cols, answer.rows)]
           [] OTHER ->
                [err |-> Nil, via |-> "outputTable",
                 text |-> outputTable(answer.cols, answer.rows)]

\* one executeQuery call, recorded
Execute(line, q, format) ==
    \E answer \in Query(q) :
        LET o == executeQuery(answer, format)
        IN /\ out' = [called |-> TRUE, query |-> q, format |-> format,
                      answer |-> answer, err |-> o.err, text |-> o.text]
           /\ session' = Append(session, [line |-> line, ran |-> TRUE, via |-> o.via])

\* main, after the files are loaded: one query, or the interactive loop.
\* interactiveMode gives readline the history file as it is found: readline
\* takes its lines, trimmed, the empty ones left out, as its history.
Main(format, q, file) ==
    /\ phase = "args"
    /\ currentFormat' = format
    /\ IF q # ""
       THEN /\ Execute(q, q, format)
            /\ phase' = "exit"
            /\ UNCHANGED <<historyFile, rlHistory>>
       ELSE /\ phase' = "shell"
            /\ historyFile' = file
            /\ rlHistory' = SelectSeq([i \in 1..Len(file) |-> TrimSpace(file[i])],
                                      LAMBDA l : l # "")
            /\ UNCHANGED <<out, session>>
    /\ UNCHANGED <<loaderVars, encoderVars, parserVars, program, model, typed, last>>

\* interactiveMode: one turn of the loop on a line that was read.  Before it
\* returns the line as it was typed, rl.ReadLine enters it in readline's
\* history and appends it to the history file, unless the line is empty or
\* repeats the newest entry.
ReadLine(raw) ==
    /\ phase = "shell"
    /\ Len(session) < MaxLines
    /\ IF raw = "" \/ (Len(rlHistory) > 0 /\ raw = rlHistory[Len(rlHistory)])
       THEN UNCHANGED <<historyFile, rlHistory>>
       ELSE /\ rlHistory' = Append(rlHistory, raw)
            /\ historyFile' = Append(historyFile, raw)
    /\ LET line == TrimSpace(raw)
           lower == ToLower(line)
           skip == /\ session' = Append(session, [line |-> raw, ran |-> FALSE, via |-> Nil])
                   /\ UNCHANGED out
       IN IF line = "" THEN skip /\ UNCHANGED <<phase, currentFormat>>
          ELSE IF lower \in {".quit", ".exit", ".q"}
          THEN skip /\ phase' = "exit" /\ UNCHANGED currentFormat
          ELSE IF lower \in {".help", ".h", ".?", ".schema"}
          THEN skip /\ UNCHANGED <<phase, currentFormat>>
          ELSE IF lower = ".tables"
          THEN Execute(raw, TablesQuery, currentFormat) /\ UNCHANGED <<phase, currentFormat>>
          ELSE IF StartsWith(line, ".format ")
          THEN LET newFmt == TrimSpace(TrimPrefix(line, ".format "))
               IN /\ skip
                  /\ currentFormat' = IF newFmt \in {"table", "json", "csv"}
                                      THEN newFmt ELSE currentFormat
                  /\ UNCHANGED phase
          ELSE Execute(raw, line, currentFormat) /\ UNCHANGED <<phase, currentFormat>>
    /\ UNCHANGED <<loaderVars, encoderVars, parserVars, program, model, typed, last>>

\* interactiveMode: ReadLine fails (end of input, interrupt) and the loop ends
ReadEOF ==
    /\ phase = "shell"
    /\ phase' = "exit"
    /\ UNCHANGED <<currentFormat, session, out, rlHistory>>
    /\ UNCHANGED <<loaderVars, encoderVars, parserVars, tuiVars>>

NextMain ==
    \/ \E format \in FlagFormats, q \in FlagQueries,
          file \in {<<>>, <<"# 2006-01-02T15:04:05Z", SelectOne, "">>} :
          Main(format, q, file)
    \/ \E raw \in InputLines : ReadLine(raw)
    \/ ReadEOF

SpecMain == Init /\ [][NextMain]_vars

-----------------------------------------------------------------------------
(* The terminal interface: a bubbletea program whose Update handles one    *)
(* message at a time.  The text area is modelled by its value and the      *)
(* offset of its cursor in the value; the window is wide enough for every  *)
(* line of the value to take one row.                                      *)

MaxTyped == 1
MaxSubmits == 2
MaxLeft == 1

\* textarea.InsertString, and the runes of a key press: the text goes in at
\* the cursor, which ends up behind it
InsertString(mod, s) ==
    [mod EXCEPT !.input = SubSeq(@, 1, mod.cursor) \o s \o SubSeq(@, mod.cursor + 1, Len(@)),
                !.cursor = @ + Len(s)]

\* strings.Count
CountOf(text, pat) ==
    Cardinality({i \in 1..(Len(text) - Len(pat) + 1) : SubSeq(text, i, i + Len(pat) - 1) = pat})

RECURSIVE Split(_, _)
\* strings.Split on a separator of one character
Split(s, sep) ==
    LET at == {i \in 1..Len(s) : SubSeq(s, i, i) = sep}
    IN IF at = {} THEN <<s>>
       ELSE LET i == CHOOSE i \in at : \A j \in at : i <= j
            IN <<SubSeq(s, 1, i - 1)>> \o Split(SubSeq(s, i + 1, Len(s)), sep)

\* appendToHistory: "# <timestamp>\n<query>\n\n" is appended to the file
appendToHistory(file, query) ==
    file \o <<"# 2006-01-02T15:04:05Z">> \o Split(query, "\n") \o <<"">>

RECURSIVE loadHistoryFrom(_, _, _)
\* loadHistory, the loop over the lines: a "# " line and an empty line end
\* the entry collected in current, which is put in front of history
loadHistoryFrom(lines, current, history) ==
    LET entered == IF Len(current) > 0 THEN <<Join(current, "\n")>> \o history
                   ELSE history
    IN IF Len(lines) = 0 THEN entered
       ELSE IF StartsWith(Head(lines), "# ") \/ Head(lines) = ""
       THEN loadHistoryFrom(Tail(lines), <<>>, entered)
       ELSE loadHistoryFrom(Tail(lines), Append(current, Head(lines)), history)

\* loadHistory: the entries of the file, newest first
loadHistory(file) == loadHistoryFrom(file, <<>>, <<>>)

\* buildTable: the content put into the results viewport
buildTable(rows, headers, terminalWidth) ==
    IF Len(rows) = 0
    THEN [headers |-> <<>>, colWidth |-> 0, rows |-> <<>>, text |-> "No results"]
    ELSE [headers |-> headers,
          colWidth |-> Max({10, (terminalWidth - 4) \div Len(headers)}),
          rows |-> rows, text |-> ""]

\* recalculateLayout
recalculateLayout(mod) ==
    LET textLines == CountOf(mod.input, "\n") + 1
        textareaHeight == Max({3, IF textLines + 2 > 8 THEN 8 ELSE textLines + 2})
    IN [mod EXCEPT !.inputHeight = textareaHeight,
                   !.tableHeight = Max({5, mod.height - textareaHeight - 1})]

\* initialModel
initialModel(format, file) ==
    [format |-> format, input |-> "", cursor |-> 0,
     results |-> [headers |-> <<"Getting Started">>, colWidth |-> 40,
                  rows |-> <<<<"Welcome to pbql-go">>, <<"">>,
                             <<"Type a SQL query and press Enter">>,
                             <<"Ctrl+J - Insert newline">>,
                             <<"Ctrl+C or .quit - Exit">>,
                             <<".help, .tables, .schema - More commands">>>>,
                  text |-> ""],
     width |-> 80, height |-> 24, inputHeight |-> 3, tableHeight |-> 0,
     history |-> loadHistory(file), historyPos |-> -1]

\* the executeQuery of the terminal interface: rows and headers of the
\* table, every value printed with %v
tuiExecuteQuery(answer) ==
    IF answer.err # Nil
    THEN [rows |-> <<<<"Error: " \o answer.err>>>>, cols |-> <<"Error">>]
    ELSE [rows |-> [r \in 1..Len(answer.rows) |->
                       [i \in 1..Len(answer.cols) |->
                           IF answer.rows[r][i].kind = "null" THEN "<nil>"
                           ELSE answer.rows[r][i].text]],
          cols |-> answer.cols]

\* handleCommand: the model returned, whether tea.Quit is, and whether the
\* database was queried
handleCommand(mod, cmd) ==
    LET lower == ToLower(cmd)
        show(rows, headers) ==
            recalculateLayout([mod EXCEPT !.results = buildTable(rows, headers, mod.width)])
        listed == (CHOOSE a \in Query(TablesQuery) : TRUE).rows
    IN IF lower \in {".quit", ".exit", ".q"}
       THEN [m |-> mod, quit |-> TRUE, ran |-> FALSE]
       ELSE IF lower \in {".help", ".h", ".?"}
       THEN [m |-> show(<<<<".help, .h, .?", "Show this help">>,
                          <<".tables", "List all tables">>,
                          <<".schema", "Show detailed schema">>,
                          <<".format <fmt>", "Set output format">>,
                          <<".quit, .exit", "Exit interactive mode">>,
                          <<"Enter", "Execute query">>,
                          <<"Ctrl+C, q", "Quit">>>>, <<"Command", "Description">>),
             quit |-> FALSE, ran |-> FALSE]
       ELSE IF lower = ".tables"
       THEN [m |-> show([r \in 1..Len(listed) |-> <<listed[r][1].text>>], <<"Tables">>),
             quit |-> FALSE, ran |-> TRUE]
       ELSE IF lower = ".schema"
       THEN [m |-> show(<<<<"files", "name, package, syntax, options">>,
                          <<"messages", "full_name, name, file, parent_message...">>,
                          <<"fields", "id, name, number, message, type, type_name...">>,
                          <<"enums", "full_name, name, file, parent_message...">>,
                          <<"enum_values", "id, name, number, enum, options">>,
                          <<"services", "full_name, name, file, options">>,
                          <<"methods", "full_name, name, service, input_type...">>,
                          <<"extensions", "full_name, name, number, file...">>,
                          <<"oneofs", "id, name, message, options">>,
                          <<"oneof_fields", "oneof_id, field_id">>,
                          <<"dependencies", "file, dependency, is_public...">>>>,
                        <<"Table", "Columns">>),
             quit |-> FALSE, ran |-> FALSE]
       ELSE IF StartsWith(cmd, ".format ")
       THEN LET newFmt == TrimSpace(TrimPrefix(cmd, ".format "))
            IN IF newFmt \in {"table", "json", "csv"}
               THEN [m |-> recalculateLayout(
                              [mod EXCEPT !.format = newFmt,
                                          !.results = buildTable(
                                              <<<<"Format set to " \o newFmt>>>>,
                                              <<"Status">>, mod.width)]),
                     quit |-> FALSE, ran |-> FALSE]
               ELSE [m |-> show(<<<<"Invalid format: " \o newFmt>>>>, <<"Error">>),
                     quit |-> FALSE, ran |-> FALSE]
       ELSE [m |-> show(<<<<"Unknown command: " \o cmd>>>>, <<"Error">>),
             quit |-> FALSE, ran |-> FALSE]

\* Update, case "up", "ctrl+p", without the test against the oldest entry
historyUp_unbounded(mod) ==
    LET entry == IF mod.historyPos + 1 < Len(mod.history)
                 THEN mod.history[mod.historyPos + 2] ELSE ""
    IN [mod EXCEPT !.historyPos = @ + 1, !.input = entry, !.cursor = Len(entry)]

\* Update, case "up", "ctrl+p".  history is indexed from 0 in the program
\* and from 1 here.  SetValue leaves the cursor at the end of the value.
historyUp(mod) ==
    IF mod.historyPos < Len(mod.history) - 1
    THEN [mod EXCEPT !.historyPos = @ + 1,
                     !.input = mod.history[mod.historyPos + 2],
                     !.cursor = Len(mod.history[mod.historyPos + 2])]
    ELSE mod

\* Update, case "down", "ctrl+n"
historyDown(mod) ==
    IF mod.historyPos > 0
    THEN [mod EXCEPT !.historyPos = @ - 1,
                     !.input = mod.history[mod.historyPos],
                     !.cursor = Len(mod.history[mod.historyPos])]
    ELSE IF mod.historyPos = 0
    THEN [mod EXCEPT !.historyPos = -1, !.input = "", !.cursor = 0]
    ELSE mod

\* Update(msg): the model and command returned, the history file afterwards,
\* whether the message reached the text area, and what a submitted line did
Update(mod, file, msg, answer) ==
    LET stay == [m |-> mod, quit |-> FALSE, file |-> file, toInput |-> FALSE,
                 line |-> "", ran |-> FALSE, via |-> Nil]
        key == IF msg.type = "key" THEN msg.key ELSE ""
        query == TrimSpace(mod.input)
        \* InsertString("\n") and CursorDown: the cursor, at the start of
        \* the new row, goes on to the start of the row below when there is one
        broken == InsertString(mod, "\n")
        below == {i \in (broken.cursor + 1)..Len(broken.input) :
                     SubSeq(broken.input, i, i) = "\n"}
        lowered == IF below = {} THEN broken
                   ELSE [broken EXCEPT !.cursor = CHOOSE i \in below : \A j \in below : i <= j]
    IN IF msg.type = "key" /\ key \in {"ctrl+c", "q"}
       THEN [stay EXCEPT !.quit = TRUE]
       ELSE IF msg.type = "key" /\ key \in {"up", "ctrl+p"}
       THEN [stay EXCEPT !.m = historyUp(mod)]
       ELSE IF msg.type = "key" /\ key \in {"down", "ctrl+n"}
       THEN [stay EXCEPT !.m = historyDown(mod)]
       ELSE IF msg.type = "key" /\ key = "ctrl+j"
       THEN [stay EXCEPT !.m = recalculateLayout(lowered)]
       ELSE IF msg.type = "key" /\ key = "enter"
       THEN IF query = "" THEN stay
            ELSE IF StartsWith(query, ".")
            THEN LET h == handleCommand(mod, query)
                 IN [stay EXCEPT !.m = h.m, !.quit = h.quit, !.line = query,
                                 !.ran = h.ran,
                                 !.via = IF h.ran THEN "buildTable" ELSE Nil]
            ELSE LET res == tuiExecuteQuery(answer)
                     written == appendToHistory(file, query)
                 IN [stay EXCEPT
                        !.m = [mod EXCEPT !.results = buildTable(res.rows, res.cols, mod.width),
                                          !.history = loadHistory(written),
                                          !.historyPos = -1,
                                          !.input = "", !.cursor = 0],
                        !.file = written, !.line = query, !.ran = TRUE,
                        !.via = "buildTable"]
       ELSE LET sized == IF msg.type = "size"
                         THEN [mod EXCEPT !.width = msg.width, !.height = msg.height]
                         ELSE mod
                \* the text area's own Update: runes are inserted, left moves
                \* the cursor one character back
                fed == IF msg.type = "key" /\ msg.runes
                       THEN InsertString(sized, msg.key)
                       ELSE IF msg.type = "key" /\ key = "left" /\ sized.cursor > 0
                       THEN [sized EXCEPT !.cursor = @ - 1]
                       ELSE sized
            IN [stay EXCEPT !.m = recalculateLayout(fed), !.toInput = TRUE]

\* tui.Run: the program starts with the history file as it is found
Run(format, file) ==
    /\ program = "off"
    /\ program' = "running"
    /\ historyFile' = file
    /\ model' = initialModel(format, file)
    /\ UNCHANGED <<typed, last, session>>
    /\ UNCHANGED <<loaderVars, encoderVars, parserVars, phase, currentFormat, out, rlHistory>>

\* the event loop hands one message to Update.  A tea.Quit that Update
\* returns is a command: its QuitMsg comes through the channel of the
\* messages, and those that arrive before it are still handed to Update.
Send(msg) ==
    /\ program \in {"running", "quitting"}
    /\ LET inserts == msg.type = "key" /\ (msg.key = "ctrl+j" \/ (msg.runes /\ msg.key # "q"))
           query == TrimSpace(model.input)
       IN /\ inserts => typed < MaxTyped
          /\ (msg.type = "key" /\ msg.key = "left") =>
                 Len(model.input) - model.cursor < MaxLeft
          /\ (msg.type = "key" /\ msg.key = "enter" /\ query # "") => Len(session) < MaxSubmits
          /\ \E answer \in (IF msg.type = "key" /\ msg.key = "enter"
                              THEN Query(query)
                              ELSE {[err |-> Nil, cols |-> <<>>, rows |-> <<>>]}) :
                LET u == Update(model, historyFile, msg, answer)
                IN /\ model' = u.m
                   /\ historyFile' = u.file
                   /\ program' = IF u.quit THEN "quitting" ELSE program
                   /\ last' = [msg |-> msg, quit |-> u.quit, toInput |-> u.toInput,
                               line |-> u.line]
                   /\ session' = IF u.line # ""
                                 THEN Append(session, [line |-> u.line, ran |-> u.ran,
                                                       via |-> u.via])
                                 ELSE session
                   /\ typed' = IF inserts THEN typed + 1 ELSE typed
    /\ UNCHANGED <<loaderVars, encoderVars, parserVars, phase, currentFormat, out, rlHistory>>

\* the event loop receives the QuitMsg and p.Run returns
QuitMsg ==
    /\ program = "quitting"
    /\ program' = "quit"
    /\ UNCHANGED <<model, historyFile, typed, last, session>>
    /\ UNCHANGED <<loaderVars, encoderVars, parserVars, phase, currentFormat, out, rlHistory>>

NextTui ==
    \/ QuitMsg
    \/ \E format \in {"table", "csv"},
          file \in {<<>>, appendToHistory(appendToHistory(<<>>, SelectFiles), SelectOne)} :
          Run(format, file)
    \/ \E key \in {"ctrl+c", "up", "down", "ctrl+j", "enter", "left"} :
          Send([type |-> "key", key |-> key, runes |-> FALSE, width |-> 0, height |-> 0])
    \/ \E text \in {"q", "x", ".q", ".format json"} :
          Send([type |-> "key", key |-> text, runes |-> TRUE, width |-> 0, height |-> 0])
    \/ \E size \in {<<60, 6>>} :
          Send([type |-> "size", key |-> "", runes |-> FALSE,
                width |-> size[1], height |-> size[2]])

SpecTui == Init /\ [][NextTui]_vars

-----------------------------------------------------------------------------
(* Claims about the parser, checked under SpecParse, about the command     *)
(* line, checked under SpecMain, and about the terminal interface, checked *)
(* under SpecTui.                                                          *)

\* the sources of the last ParseFiles call that compiled, and every error the
\* compiler had to report for the others
CompiledSources == {i \in 1..Len(parseArgs.files) : parseArgs.files[i] = "ok"}
CompileErrors ==
    UNION {Range(Reports(i, parseArgs.files[i])) : i \in 1..Len(parseArgs.files)}
SourceErrors ==
    CompileErrors \cup {ResolveError(i) : i \in 1..Len(parseArgs.files)}

\* C22: with Lenient set, ParseFiles returns a result holding every source
\* that compiled, the failing ones skipped, together with every collected
\* error, and returns an error only when no source compiled and the compiler
\* returned an error; with Lenient unset, any compile error makes ParseFiles
\* return that error and no result.
C22_LenientParsing ==
    parseRet.returned =>
        LET failed == CompiledSources # 1..Len(parseArgs.files)
            whole == /\ ~parseRet.result.isNil
                     /\ Range(parseRet.result.Files) = {SourceName(i) : i \in CompiledSources}
                     /\ Len(parseRet.result.Files) = Cardinality(CompiledSources)
        IN IF parseArgs.opts.Lenient
           THEN /\ (parseRet.err # Nil) <=> (CompiledSources = {} /\ failed)
                /\ parseRet.err # Nil => parseRet.result.isNil
                /\ parseRet.err = Nil =>
                      /\ whole
                      /\ Range(parseRet.result.Errors) = CompileErrors
                      /\ Len(parseRet.result.Errors) = Cardinality(CompileErrors)
           ELSE IF failed
                THEN parseRet.result.isNil /\ parseRet.err \in SourceErrors
                ELSE parseRet.err = Nil /\ whole

\* a lenient call on sources of which one compiled and another did not has
\* returned the compiled one with the errors of the other
C22_Witness ==
    /\ parseRet.returned
    /\ parseArgs.opts.Lenient
    /\ \E i, j \in 1..Len(parseArgs.files) :
           parseArgs.files[i] = "ok" /\ parseArgs.files[j] = "bad2"
    /\ ~parseRet.result.isNil
    /\ Len(parseRet.result.Files) >= 1
    /\ Len(parseRet.result.Errors) >= 2

\* C23: with output format json, a query that runs writes a JSON array: the
\* output starts with '[' and holds exactly one object per result row, keyed
\* by the column names, for a result of any number of rows, zero included.
C23_JSONArray ==
    (out.called /\ out.format = "json" /\ out.err = Nil) =>
        /\ StartsWith(out.text, "[")
        /\ CountOf(out.text, "\n  {\n") = Len(out.answer.rows)
        /\ \A c \in Range(out.answer.cols) :
               CountOf(out.text, "\n    \"" \o c \o "\": ") = Len(out.answer.rows)

\* the format a submitted line asks for: the argument of a .format line
FormatAsked(line) ==
    IF StartsWith(TrimSpace(line), ".format ")
    THEN TrimSpace(TrimPrefix(TrimSpace(line), ".format "))
    ELSE Nil

\* the format an output function renders
RenderedAs(via) ==
    CASE via = "outputJSON" -> "json"
      [] via = "outputCSV" -> "csv"
      [] via \in {"outputTable", "buildTable"} -> "table"
      [] OTHER -> Nil

\* C24: in an interactive session, after `.format <fmt>` with fmt one of
\* table, json, csv, every query executed is rendered in that format until
\* the next valid `.format`; a `.format` line with any other argument leaves
\* the format in force unchanged; and a `.format` line executes no query.
C24_FormatCommand ==
    \A k \in 1..Len(session) :
        /\ FormatAsked(session[k].line) # Nil => ~session[k].ran
        /\ session[k].via # Nil =>
              \A j \in 1..(k - 1) :
                  (/\ FormatAsked(session[j].line) \in {"table", "json", "csv"}
                   /\ \A i \in (j + 1)..(k - 1) :
                          FormatAsked(session[i].line) \notin {"table", "json", "csv"})
                  => RenderedAs(session[k].via) = FormatAsked(session[j].line)

\* C25: the terminal interface returns Quit only for Ctrl+C and for .quit,
\* .exit or .q submitted with Enter; every other key press leaves the
\* program running, Update returning no Quit for it, and a printable
\* character is delivered to the query input.
C25_QuitOnlyOnRequest ==
    last.msg.type = "key" =>
        LET asked == \/ last.msg.key = "ctrl+c"
                     \/ /\ last.msg.key = "enter"
                        /\ ToLower(last.line) \in {".quit", ".exit", ".q"}
        IN /\ last.quit => asked
           /\ ~asked => (~last.quit /\ program # "off")
           /\ last.msg.runes => last.toInput

\* C26: in every state reached by key and window-size messages,
\* -1 <= historyPos <= len(history) - 1; Up moves one entry towards the
\* oldest and stops at the last index, Down moves one entry back and from
\* index 0 returns to -1 with an empty input, and executing a query that is
\* not a command resets historyPos to -1 and clears the input; the entry put
\* into the input is history[historyPos], read in range.
C26_HistoryCursor ==
    [][LET handled == program # "off" /\ program' # "quit"
           cur == model.historyPos
           key == last'.msg.key
           recalled == model'.input = model.history[model'.historyPos + 1]
       IN /\ model'.historyPos >= -1
          /\ model'.historyPos <= Len(model'.history) - 1
          /\ (handled /\ key \in {"up", "ctrl+p"}) =>
                IF cur < Len(model.history) - 1
                THEN model'.historyPos = cur + 1 /\ recalled
                ELSE model'.historyPos = cur /\ model'.input = model.input
          /\ (handled /\ key \in {"down", "ctrl+n"}) =>
                IF cur > 0 THEN model'.historyPos = cur - 1 /\ recalled
                ELSE model'.historyPos = -1
                     /\ model'.input = (IF cur = 0 THEN "" ELSE model.input)
          /\ (handled /\ key = "enter"
              /\ last'.line # "" /\ ~StartsWith(last'.line, ".")) =>
                model'.historyPos = -1 /\ model'.input = ""
      ]_vars

\* Up has been pressed until the oldest of at least two entries is in the
\* input
C26_Witness ==
    /\ last.msg.key = "up"
    /\ Len(model.history) >= 2
    /\ model.historyPos = Len(model.history) - 1
    /\ model.input = model.history[Len(model.history)]

====
